---------------------------- MODULE Spec2Model ----------------------------
(***************************************************************************)
(* Model of the task store of zra-helper (src/store/modules/tasks.ts), of  *)
(* the task wrapper (transitional/tasks) and of the client actions that    *)
(* run under a task: login, logout, robustLogin and the per-tax-type       *)
(* subtasks of getAllPendingLiabilities.                                   *)
(*                                                                         *)
(* Numbers that the store derives can be fractions (a parent with a known  *)
(* maximum adds progress/progressMax of its children), so every progress   *)
(* value is a rational <<numerator, denominator>> in lowest terms.         *)
(***************************************************************************)
EXTENDS Integers, Sequences, FiniteSets, TLC

VARIABLES
  tasks,        \* state.tasks: task id -> task record
  lists,        \* the top-level lists: all, clientActions, login, taskViewer
  lastTaskId,   \* the module-level id counter
  created,      \* history: the ids create has assigned, in call order
  last,         \* history: the last store operation that was dispatched
  calls,        \* history: the number of store calls dispatched so far
  call,         \* the client action that was started, with its arguments
  rl,           \* the robustLogin call
  lg,           \* the login call in progress
  lo,           \* the logout call in progress
  tf,           \* the taskFunction call
  pl,           \* the getAllPendingLiabilities call
  sub,          \* its per-tax-type promises
  tabs,         \* the browser tabs: ids opened so far and ids still open
  marks,        \* history: task id -> number of markAsComplete calls on it
  settled,      \* history: the promises of the task runners that settled
  units,        \* the concurrently running callers of addStep
  tc,           \* the tab creator (TabCreator of helpers/zra.ts)
  mp,           \* a parallel batch over the items of a list
  pg,           \* a paged fetch of receipt data
  rt,           \* a run of the get payment receipts action and its retries
  dr,           \* a call of downloadReceipt
  tl,           \* a call of tabLoaded and the events of the browser
  ul,           \* the robustLogin call of user.ts and its login and logout
  rm            \* a list of client ids of the dashboard and its clean-up

storeVars == <<tasks, lists, lastTaskId, created>>
extVars == <<units, tc, mp, pg, rt, dr, tl, ul, rm>>
runVars == <<call, rl, lg, lo, tf, pl, sub, tabs, marks, settled, extVars>>
vars == <<tasks, lists, lastTaskId, created, last, calls,
          call, rl, lg, lo, tf, pl, sub, tabs, marks, settled, units, tc, mp, pg, rt, dr, tl, ul, rm>>

----------------------------------------------------------------------------
(* Bounds of the model *)

MaxTasks == 3
MaxCalls == 6
MaxProgressMax == 2
MaxAttempts == 2
MaxTaxTypes == 2

----------------------------------------------------------------------------
(* Values *)

null == "null"
NoParent == -1

ERROR == "error"
SUCCESS == "success"
WARNING == "warning"
TaskState == {ERROR, SUCCESS, WARNING}

Errors == {"E1", "E2"}

ListNames == {"all", "clientActions", "login", "taskViewer"}

\* errorToString renders an error as text; the text identifies the error.
errorToString(e) == <<"str", e>>

----------------------------------------------------------------------------
(* Rational numbers *)

RECURSIVE GCD(_, _)
GCD(a, b) == IF b = 0 THEN a ELSE GCD(b, a % b)

Rat(n, d) == LET g == GCD(n, d) IN <<n \div g, d \div g>>
R(n) == <<n, 1>>
RAdd(a, b) == Rat(a[1] * b[2] + b[1] * a[2], a[2] * b[2])
RDiv(a, b) == Rat(a[1] * b[2], a[2] * b[1])
RLe(a, b) == a[1] * b[2] <= b[1] * a[2]

RECURSIVE RSum(_)
RSum(s) == IF s = <<>> THEN R(0) ELSE RAdd(Head(s), RSum(Tail(s)))

----------------------------------------------------------------------------
(* Getters *)

hasParent(ts, id) == ts[id].parent # NoParent
hasChildren(ts, id) == Len(ts[id].children) > 0
children(ts, id) == [i \in 1..Len(ts[id].children) |-> ts[ts[id].children[i]]]

ChildSetOf(ts, id) == {ts[id].children[i] : i \in 1..Len(ts[id].children)}

\* The children of a task that update their parent, in creation order.
\* Mutant of autoChildren: every child counts.
autoChildren_all(ts, id) == ts[id].children

autoChildren(ts, id) == SelectSeq(ts[id].children, LAMBDA c : ts[c].autoUpdateParent)

\* Mutant of childStateCounts: only the children that update their parent
\* are counted.
childStateCounts_auto(ts, id) ==
  LET auto == autoChildren(ts, id)
      present == {s \in TaskState : \E i \in 1..Len(auto) : ts[auto[i]].state = s}
  IN [s \in present |-> Cardinality({i \in 1..Len(auto) : ts[auto[i]].state = s})]

\* Only the states that some child has get a count.
childStateCounts(ts, id) ==
  LET kids == children(ts, id)
      present == {s \in TaskState : \E i \in 1..Len(kids) : kids[i].state = s}
  IN [s \in present |-> Cardinality({i \in 1..Len(kids) : kids[i].state = s})]

\* counts[state] > 0, which is false for a state without count.
positive(counts, state) == state \in DOMAIN counts /\ counts[state] > 0

\* Mutant of complete: reads the stored flag of the children.
complete_storedFlag(ts, id) ==
  LET auto == autoChildren(ts, id) IN
  IF hasChildren(ts, id) /\ Len(auto) > 0
  THEN \A i \in 1..Len(auto) : ts[auto[i]].complete
  ELSE ts[id].complete

RECURSIVE complete(_, _)
complete(ts, id) ==
  LET auto == autoChildren(ts, id) IN
  IF hasChildren(ts, id) /\ Len(auto) > 0
  THEN \A i \in 1..Len(auto) : complete(ts, auto[i])
  ELSE ts[id].complete

RECURSIVE progress(_, _), progressMax(_, _), getChildProgress(_, _, _)

\* Mutant of getChildProgress: a sequential parent takes its first
\* auto-updating child, complete or not.
getChildProgress_firstChild(type, ts, id) ==
  LET task == ts[id]
      auto == autoChildren(ts, id)
      get(c) == IF type = "progress" THEN progress(ts, c) ELSE progressMax(ts, c)
      result ==
        IF task.unknownMaxProgress
        THEN IF ~task.sequential
             THEN RSum([i \in 1..Len(auto) |-> get(auto[i])])
             ELSE IF Len(auto) > 0 THEN get(auto[1]) ELSE R(0)
        ELSE IF type = "progress"
             THEN RSum([i \in 1..Len(auto) |->
                          RDiv(progress(ts, auto[i]), progressMax(ts, auto[i]))])
             ELSE R(0)
  IN IF ~complete(ts, id) /\ (type = "progress" \/ task.unknownMaxProgress)
        /\ Len(auto) > 0
     THEN [some |-> TRUE, val |-> result]
     ELSE [some |-> FALSE]

\* Mutant of getChildProgress: a parallel parent assigns instead of adding,
\* which leaves the value of its last auto-updating child.
getChildProgress_assign(type, ts, id) ==
  LET task == ts[id]
      auto == autoChildren(ts, id)
      get(c) == IF type = "progress" THEN progress(ts, c) ELSE progressMax(ts, c)
      open == SelectSeq(auto, LAMBDA c : ~complete(ts, c))
      result ==
        IF task.unknownMaxProgress
        THEN IF ~task.sequential
             THEN IF Len(auto) > 0 THEN get(auto[Len(auto)]) ELSE R(0)
             ELSE IF Len(open) > 0 THEN get(open[1]) ELSE R(0)
        ELSE IF type = "progress"
             THEN RSum([i \in 1..Len(auto) |->
                          RDiv(progress(ts, auto[i]), progressMax(ts, auto[i]))])
             ELSE R(0)
  IN IF ~complete(ts, id) /\ (type = "progress" \/ task.unknownMaxProgress)
        /\ Len(auto) > 0
     THEN [some |-> TRUE, val |-> result]
     ELSE [some |-> FALSE]

\* The result is [some |-> FALSE] where the code returns null.
getChildProgress(type, ts, id) ==
  LET task == ts[id]
      auto == autoChildren(ts, id)
      get(c) == IF type = "progress" THEN progress(ts, c) ELSE progressMax(ts, c)
      open == SelectSeq(auto, LAMBDA c : ~complete(ts, c))
      result ==
        IF task.unknownMaxProgress
        THEN IF ~task.sequential
             THEN RSum([i \in 1..Len(auto) |-> get(auto[i])])
             ELSE IF Len(open) > 0 THEN get(open[1]) ELSE R(0)
        ELSE IF type = "progress"
             THEN RSum([i \in 1..Len(auto) |->
                          RDiv(progress(ts, auto[i]), progressMax(ts, auto[i]))])
             ELSE R(0)
  IN IF ~complete(ts, id) /\ (type = "progress" \/ task.unknownMaxProgress)
        /\ Len(auto) > 0
     THEN [some |-> TRUE, val |-> result]
     ELSE [some |-> FALSE]

progress(ts, id) ==
  LET p == getChildProgress("progress", ts, id) IN
  IF hasChildren(ts, id) /\ p.some THEN p.val ELSE ts[id].progress

progressMax(ts, id) ==
  LET p == getChildProgress("progressMax", ts, id) IN
  IF hasChildren(ts, id) /\ ts[id].unknownMaxProgress /\ p.some
  THEN p.val
  ELSE ts[id].progressMax

----------------------------------------------------------------------------
(* Mutations: each gives the tasks after the commit *)

setField(ts, id, field, value) == [ts EXCEPT ![id] = [@ EXCEPT ![field] = value]]

\* Mutant of addChildren: the new children are put in front.
addChildren_front(ts, id, kids) == [ts EXCEPT ![id].children = kids \o @]

addChildren(ts, id, kids) == [ts EXCEPT ![id].children = @ \o kids]

addToList(ls, id, name) == [ls EXCEPT ![name] = Append(@, id)]

clearList(ls, name) == [ls EXCEPT ![name] = <<>>]

\* Mutant of removeTasks: the removed ids are also taken out of the children
\* of the tasks that stay.
removeTasks_unlink(ts, ids) ==
  [i \in (DOMAIN ts) \ ids |->
     [ts[i] EXCEPT !.children = SelectSeq(@, LAMBDA c : c \notin ids)]]

removeTasks(ts, ids) == [i \in (DOMAIN ts) \ ids |-> ts[i]]

commitSetError(ts, id, value) ==
  setField(setField(ts, id, "error", value), id, "errorString", errorToString(value))

----------------------------------------------------------------------------
(* Actions of the store, as functions of the tasks *)

\* The defaults of create; the options of the caller override them.
defaultTask(id) ==
  [ id |-> id, title |-> "", status |-> "", state |-> null, progress |-> R(0), progressMax |-> R(1),
    children |-> <<>>, complete |-> FALSE, error |-> null, errorString |-> "",
    parent |-> NoParent, unknownMaxProgress |-> TRUE, sequential |-> TRUE,
    autoUpdateParent |-> TRUE ]

newTask(id, data) == data @@ defaultTask(id)

\* create throws in addChildren when the parent is not in the store; the task
\* was committed and the counter incremented before that.
createThrows(ts, data) ==
  LET t == newTask(0, data) IN t.parent # NoParent /\ t.parent \notin DOMAIN ts

createTasks(ts, id, data) ==
  LET t == newTask(id, data)
      ts1 == (id :> t) @@ ts
  IN IF t.parent = NoParent \/ t.parent \notin DOMAIN ts THEN ts1
     ELSE addChildren(ts1, t.parent, <<id>>)

createLists(ls, id, data, name) ==
  IF newTask(id, data).parent = NoParent THEN addToList(ls, id, name) ELSE ls

\* Mutant of incrLastTaskId: the counter is not advanced.
incrLastTaskId_forget(n) == n

\* lastTaskId += 1
incrLastTaskId(n) == n + 1

\* Mutant of markAsComplete: the progress is left as it is.
markAsComplete_noProgress(ts, id) ==
  setField(setField(ts, id, "complete", TRUE), id, "status", "")

\* Mutant of markAsComplete: takes the stored maximum, not the derived one.
markAsComplete_storedMax(ts, id) ==
  LET ts1 == setField(ts, id, "complete", TRUE)
      ts2 == setField(ts1, id, "progress", ts1[id].progressMax)
  IN setField(ts2, id, "status", "")

markAsComplete(ts, id) ==
  LET ts1 == setField(ts, id, "complete", TRUE)
      ts2 == setField(ts1, id, "progress", progressMax(ts1, id))
  IN setField(ts2, id, "status", "")

\* Mutant of setError: the state is left as it is.
setError_noState(ts, id, error) == commitSetError(ts, id, error)

\* Mutant of setError: the parent of the task is set to ERROR as well.
setError_parent(ts, id, error) ==
  LET ts1 == setField(commitSetError(ts, id, error), id, "state", ERROR)
  IN IF hasParent(ts, id) /\ ts[id].parent \in DOMAIN ts
     THEN setField(ts1, ts[id].parent, "state", ERROR) ELSE ts1

setError(ts, id, error) ==
  setField(commitSetError(ts, id, error), id, "state", ERROR)

addStep(ts, id, status, increment) ==
  LET ts1 == setField(ts, id, "progress", RAdd(progress(ts, id), R(increment)))
  IN setField(ts1, id, "status", status)

\* Mutant of setStateBasedOnChildren: one child in error makes an error.
setStateBasedOnChildren_anyError(ts, id) ==
  LET counts == childStateCounts(ts, id)
      state == IF positive(counts, ERROR) THEN ERROR
               ELSE IF positive(counts, WARNING) THEN WARNING
               ELSE SUCCESS
  IN setField(ts, id, "state", state)

setStateBasedOnChildren(ts, id) ==
  LET counts == childStateCounts(ts, id)
      n == Len(children(ts, id))
      state == IF ERROR \in DOMAIN counts /\ counts[ERROR] = n THEN ERROR
               ELSE IF positive(counts, ERROR) \/ positive(counts, WARNING) THEN WARNING
               ELSE SUCCESS
  IN setField(ts, id, "state", state)

\* The error of the only child becomes the error of the task.
setErrorBasedOnChildren(ts, id) ==
  LET kids == children(ts, id)
  IN IF Len(kids) = 1 THEN setError(ts, id, kids[1].error) ELSE ts

----------------------------------------------------------------------------
(* The store driven by its callers *)

\* A call that was not made.
Idle == [pc |-> "idle"]

InitStore ==
  /\ tasks = <<>>
  /\ lists = [n \in ListNames |-> <<>>]
  /\ lastTaskId = 0
  /\ created = <<>>
  /\ last = [op |-> "init"]
  /\ calls = 0
  /\ call = [fn |-> "none"]
  /\ rl = Idle /\ lg = Idle /\ lo = Idle /\ tf = Idle /\ pl = Idle
  /\ sub = <<>>
  /\ tabs = [opened |-> 0, open |-> {}]
  /\ marks = <<>>
  /\ settled = {}
  /\ units = <<>> /\ tc = Idle /\ mp = Idle /\ pg = Idle /\ rt = Idle /\ dr = Idle /\ tl = Idle /\ ul = Idle /\ rm = Idle

\* The options a caller passes to create: the defaults, a known maximum
\* (as robustLogin and logout), a parallel parent and a child that does not
\* update its parent.
CreateFlags ==
  { [unknownMaxProgress |-> TRUE, sequential |-> TRUE, autoUpdateParent |-> TRUE],
    [unknownMaxProgress |-> FALSE, sequential |-> TRUE, autoUpdateParent |-> TRUE],
    [unknownMaxProgress |-> TRUE, sequential |-> FALSE, autoUpdateParent |-> TRUE],
    [unknownMaxProgress |-> TRUE, sequential |-> TRUE, autoUpdateParent |-> FALSE] }

CreateData(parents) ==
  { [progressMax |-> R(MaxProgressMax), parent |-> p] @@ f :
      f \in CreateFlags, p \in parents }

\* The first task is a root, every later one is created under a task.
StoreParents == IF tasks = <<>> THEN {NoParent} ELSE DOMAIN tasks

Create(dataSet, names) ==
  /\ lastTaskId < MaxTasks
  /\ calls < MaxCalls
  /\ \E data \in dataSet, name \in names :
       /\ tasks' = createTasks(tasks, lastTaskId, data)
       /\ lists' = IF createThrows(tasks, data) THEN lists
                   ELSE createLists(lists, lastTaskId, data, name)
       /\ lastTaskId' = incrLastTaskId(lastTaskId)
       /\ created' = Append(created, lastTaskId)
       /\ last' = [op |-> "create", id |-> lastTaskId, list |-> name,
                   threw |-> createThrows(tasks, data)]
       /\ calls' = calls + 1
       /\ UNCHANGED runVars

AddStep ==
  \E id \in DOMAIN tasks :
    /\ calls < MaxCalls
    /\ tasks' = addStep(tasks, id, "step", 1)
    /\ last' = [op |-> "addStep", id |-> id]
    /\ calls' = calls + 1
    /\ UNCHANGED <<lists, lastTaskId, created, runVars>>

SetProgress ==
  \E id \in DOMAIN tasks, value \in 0..MaxProgressMax :
    /\ calls < MaxCalls
    /\ tasks' = setField(tasks, id, "progress", R(value))
    /\ last' = [op |-> "setProgress", id |-> id]
    /\ calls' = calls + 1
    /\ UNCHANGED <<lists, lastTaskId, created, runVars>>

MarkAsComplete ==
  \E id \in DOMAIN tasks :
    /\ calls < MaxCalls
    /\ tasks' = markAsComplete(tasks, id)
    /\ last' = [op |-> "markAsComplete", id |-> id]
    /\ calls' = calls + 1
    /\ UNCHANGED <<lists, lastTaskId, created, runVars>>

SetError(errors) ==
  \E id \in DOMAIN tasks, error \in errors :
    /\ calls < MaxCalls
    /\ tasks' = setError(tasks, id, error)
    /\ last' = [op |-> "setError", id |-> id]
    /\ calls' = calls + 1
    /\ UNCHANGED <<lists, lastTaskId, created, runVars>>

SetState ==
  \E id \in DOMAIN tasks, value \in TaskState :
    /\ calls < MaxCalls
    /\ tasks' = setField(tasks, id, "state", value)
    /\ last' = [op |-> "setState", id |-> id]
    /\ calls' = calls + 1
    /\ UNCHANGED <<lists, lastTaskId, created, runVars>>

SetStateBasedOnChildren ==
  \E id \in DOMAIN tasks :
    /\ calls < MaxCalls
    /\ tasks' = setStateBasedOnChildren(tasks, id)
    /\ last' = [op |-> "setStateBasedOnChildren", id |-> id]
    /\ calls' = calls + 1
    /\ UNCHANGED <<lists, lastTaskId, created, runVars>>

RemoveTasks ==
  \E ids \in (SUBSET DOMAIN tasks) \ {{}} :
    /\ calls < MaxCalls
    /\ tasks' = removeTasks(tasks, ids)
    /\ last' = [op |-> "removeTasks", ids |-> ids]
    /\ calls' = calls + 1
    /\ UNCHANGED <<lists, lastTaskId, created, runVars>>

ClearList ==
  \E name \in {"all", "login"} :
    /\ calls < MaxCalls
    /\ lists' = clearList(lists, name)
    /\ last' = [op |-> "clearList", name |-> name]
    /\ calls' = calls + 1
    /\ UNCHANGED <<tasks, lastTaskId, created, runVars>>

\* The store under create, addStep, setProgress, markAsComplete and setError.
NextStore ==
  \/ Create(CreateData(StoreParents), {"all"})
  \/ AddStep
  \/ SetProgress
  \/ MarkAsComplete
  \/ SetError({"E1"})

SpecStore == InitStore /\ [][NextStore]_vars

\* The store under the operations that set the state of a task.
NextAggregate ==
  \/ Create(CreateData(StoreParents), {"all"})
  \/ SetState
  \/ SetError({"E1"})
  \/ SetStateBasedOnChildren

SpecAggregate == InitStore /\ [][NextAggregate]_vars

SetErrorBasedOnChildren ==
  \E id \in DOMAIN tasks :
    /\ calls < MaxCalls
    /\ tasks' = setErrorBasedOnChildren(tasks, id)
    /\ last' = [op |-> "setErrorBasedOnChildren", id |-> id]
    /\ calls' = calls + 1
    /\ UNCHANGED <<lists, lastTaskId, created, runVars>>

\* The store under the operations on one task.
NextFrame ==
  \/ Create(CreateData(StoreParents), {"all"})
  \/ AddStep
  \/ MarkAsComplete
  \/ SetError({"E1"})
  \/ SetState
  \/ SetStateBasedOnChildren
  \/ SetErrorBasedOnChildren

SpecFrame == InitStore /\ [][NextFrame]_vars

\* The store under creation and removal of tasks.
NextIds ==
  \/ Create(CreateData({NoParent} \cup (0..(lastTaskId - 1))), {"all", "login"})
  \/ RemoveTasks
  \/ ClearList

SpecIds == InitStore /\ [][NextIds]_vars

----------------------------------------------------------------------------
(* The task wrapper (transitional/tasks) and the browser tabs *)

NoTab == 0

\* What the calls of the wrapper change: the store and the history of
\* markAsComplete calls.
World == [tasks |-> tasks, marks |-> marks, lastTaskId |-> lastTaskId,
          created |-> created]

SetWorld(w) ==
  /\ tasks' = w.tasks
  /\ marks' = w.marks
  /\ lastTaskId' = w.lastTaskId
  /\ created' = w.created

\* createTask: dispatches create; the new task has the id w.lastTaskId.
createTask(w, data) ==
  [ tasks |-> createTasks(w.tasks, w.lastTaskId, data),
    marks |-> (w.lastTaskId :> 0) @@ w.marks,
    lastTaskId |-> incrLastTaskId(w.lastTaskId),
    created |-> Append(w.created, w.lastTaskId) ]

Task_addStep(w, id, status) == [w EXCEPT !.tasks = addStep(@, id, status, 1)]

\* Mutant of Task_setError: the error is not recorded.
Task_setError_lost(w, id, error) == w

Task_setError(w, id, error) == [w EXCEPT !.tasks = setError(@, id, error)]

Task_set(w, id, field, value) == [w EXCEPT !.tasks = setField(@, id, field, value)]

Task_markAsComplete(w, id) ==
  [w EXCEPT !.tasks = markAsComplete(@, id), !.marks[id] = @ + 1]

\* Mutant of taskCatch: the task is also marked complete in the catch block.
taskCatch_andComplete(w, id, error) ==
  [w |-> Task_markAsComplete(Task_setError(w, id, error), id), thrown |-> error]

\* catch (error) { task.setError(error); throw error; }
taskCatch(w, id, error) == [w |-> Task_setError(w, id, error), thrown |-> error]

\* Mutant of taskFinally: the task is left as it is.
taskFinally_skip(w, id) == w

\* finally { task.markAsComplete(); }
taskFinally(w, id) == Task_markAsComplete(w, id)

\* The record of a runner whose promise settled: thrown is the error the
\* wrapped code threw (null when it returned), error the one the promise
\* rejected with (null when it resolved).
Settled(fn, id, thrown, error) ==
  [fn |-> fn, task |-> id, thrown |-> thrown, error |-> error,
   outcome |-> IF error = null THEN "resolved" ELSE "rejected"]

createTab(tb) == [opened |-> tb.opened + 1, open |-> tb.open \cup {tb.opened + 1}]

closeTab(tb, id) == [tb EXCEPT !.open = @ \ {id}]

\* Mutant of isWrongClient: every error of a login is taken for it.
isWrongClient_any(e) == e # null

\* error.type === 'LoginError' && error.code === 'WrongClient'
isWrongClient(e) == e = "WrongClient"

\* error.type === 'TaxTypeNotFoundError'
isTaxTypeNotFound(e) == e = "TaxTypeNotFound"

----------------------------------------------------------------------------
(* login (client_actions/user.js) *)

\* The awaits of login: createTab, tabLoaded, clickElement, tabLoaded,
\* executeScript, runContentScript login, tabLoaded, runContentScript
\* check_login; the status of the step added after each but the last.
loginAwaits == 8
loginStatus ==
  << "Waiting for tab to load", "Navigating to login page",
     "Waiting for login page to load", "Logging in", "",
     "Waiting for login to complete", "Checking if login was successful" >>

LoginErrors == {"WrongClient", "E1"}

loginData(parent) ==
  [parent |-> parent, progressMax |-> R(7), status |-> "Opening tab"]

\* The call of login up to its first await.
loginStart(id, keepTabOpen) ==
  [pc |-> "await", at |-> 1, task |-> id, tabId |-> NoTab,
   keepTabOpen |-> keepTabOpen, error |-> null]

\* An await of login other than the last resolves.
LoginResolve ==
  /\ lg.pc = "await" /\ lg.at < loginAwaits
  /\ LET tb == IF lg.at = 1 THEN createTab(tabs) ELSE tabs
         w == IF loginStatus[lg.at] = "" THEN World
              ELSE Task_addStep(World, lg.task, loginStatus[lg.at])
     IN /\ tabs' = tb
        /\ lg' = [lg EXCEPT !.at = @ + 1,
                            !.tabId = IF lg.at = 1 THEN tb.opened ELSE @]
        /\ SetWorld(w)
  /\ UNCHANGED <<extVars, lists, last, calls, call, rl, lo, tf, pl, sub, settled>>

\* check_login resolves: login returns the tab.
LoginReturn ==
  /\ lg.pc = "await" /\ lg.at = loginAwaits
  /\ LET w1 == Task_set(World, lg.task, "state", SUCCESS)
         w2 == taskFinally(w1, lg.task)
     IN /\ SetWorld(w2)
        /\ tabs' = IF ~lg.keepTabOpen THEN closeTab(tabs, lg.tabId) ELSE tabs
        /\ lg' = [lg EXCEPT !.pc = "resolved"]
        /\ settled' = settled \cup {Settled("login", lg.task, null, null)}
  /\ UNCHANGED <<extVars, lists, last, calls, call, rl, lo, tf, pl, sub>>

\* An await of login rejects: the tab, if one was opened, is closed in the
\* inner finally or in the catch block.
LoginThrow ==
  /\ lg.pc = "await"
  /\ \E e \in LoginErrors :
       LET c == taskCatch(World, lg.task, e)
           w == taskFinally(c.w, lg.task)
       IN /\ SetWorld(w)
          /\ tabs' = IF lg.tabId # NoTab THEN closeTab(tabs, lg.tabId) ELSE tabs
          /\ lg' = [lg EXCEPT !.pc = IF c.thrown = null THEN "resolved" ELSE "rejected",
                              !.error = c.thrown]
          /\ settled' = settled \cup {Settled("login", lg.task, e, c.thrown)}
  /\ UNCHANGED <<extVars, lists, last, calls, call, rl, lo, tf, pl, sub>>

----------------------------------------------------------------------------
(* logout (client_actions/user.js) *)

LogoutErrors == {"E2"}

logoutData(parent) ==
  [parent |-> parent, unknownMaxProgress |-> FALSE, progressMax |-> R(3),
   status |-> "Opening tab"]

\* The call of logout up to its first await; id is the task it created.
logoutStartW(w, id, loggedInTabId) ==
  IF loggedInTabId = NoTab THEN w ELSE Task_addStep(w, id, "Initiating logout")

logoutStart(id, loggedInTabId) ==
  [pc |-> "await", task |-> id, tabId |-> loggedInTabId, error |-> null,
   at |-> IF loggedInTabId = NoTab THEN "createTab" ELSE "clickElement"]

\* createTab resolves.
LogoutResolve ==
  /\ lo.pc = "await" /\ lo.at = "createTab"
  /\ tabs' = createTab(tabs)
  /\ lo' = [lo EXCEPT !.at = "clickElement", !.tabId = tabs'.opened]
  /\ SetWorld(Task_addStep(World, lo.task, "Initiating logout"))
  /\ UNCHANGED <<extVars, lists, last, calls, call, rl, lg, tf, pl, sub, settled>>

\* clickElement resolves: logout returns.
LogoutReturn ==
  /\ lo.pc = "await" /\ lo.at = "clickElement"
  /\ LET w1 == Task_addStep(World, lo.task, "Waiting to finish logging out")
         w2 == Task_set(w1, lo.task, "state", SUCCESS)
         w3 == taskFinally(w2, lo.task)
     IN /\ SetWorld(w3)
        /\ tabs' = closeTab(tabs, lo.tabId)
        /\ lo' = [lo EXCEPT !.pc = "resolved"]
        /\ settled' = settled \cup {Settled("logout", lo.task, null, null)}
  /\ UNCHANGED <<extVars, lists, last, calls, call, rl, lg, tf, pl, sub>>

\* createTab or clickElement rejects.
LogoutThrow ==
  /\ lo.pc = "await"
  /\ \E e \in LogoutErrors :
       LET c == taskCatch(World, lo.task, e)
           w == taskFinally(c.w, lo.task)
       IN /\ SetWorld(w)
          /\ tabs' = IF lo.at = "clickElement" THEN closeTab(tabs, lo.tabId) ELSE tabs
          /\ lo' = [lo EXCEPT !.pc = IF c.thrown = null THEN "resolved" ELSE "rejected",
                              !.error = c.thrown]
          /\ settled' = settled \cup {Settled("logout", lo.task, e, c.thrown)}
  /\ UNCHANGED <<extVars, lists, last, calls, call, rl, lg, tf, pl, sub>>

\* logout called by the client action runner, with or without a logged in tab.
LogoutCall ==
  /\ call.fn = "logout" /\ lo.pc = "idle"
  /\ LET w1 == createTask(World, logoutData(call.parentTaskId))
     IN /\ SetWorld(logoutStartW(w1, lastTaskId, call.loggedInTabId))
        /\ lo' = logoutStart(lastTaskId, call.loggedInTabId)
  /\ UNCHANGED <<extVars, lists, last, calls, call, rl, lg, tf, pl, sub, tabs, settled>>

----------------------------------------------------------------------------
(* robustLogin (client_actions/user.js) *)

robustLoginData(parent, maxAttempts) ==
  [parent |-> parent, unknownMaxProgress |-> FALSE,
   progressMax |-> R(maxAttempts + (maxAttempts - 1))]

\* Mutant of retryLogin: the attempts are not counted.
retryLogin_noLimit(error, attempts, maxAttempts) == isWrongClient(error)

\* error.type === 'LoginError' && error.code === 'WrongClient'
\*   && attempts + 1 < maxAttempts
retryLogin(error, attempts, maxAttempts) ==
  isWrongClient(error) /\ attempts + 1 < maxAttempts

\* The call up to the await of the first login.
RobustLoginCall ==
  /\ call.fn = "robustLogin" /\ rl.pc = "idle"
  /\ LET w1 == createTask(World, robustLoginData(call.parentTaskId, call.maxAttempts))
         w2 == Task_set(w1, lastTaskId, "status", "Logging in")
         w3 == createTask(w2, loginData(lastTaskId))
     IN /\ SetWorld(w3)
        /\ rl' = [pc |-> "awaitLogin", task |-> lastTaskId, attempts |-> 0,
                  error |-> null, loggedInTabId |-> NoTab]
        /\ lg' = loginStart(w2.lastTaskId, call.keepTabOpen)
  /\ UNCHANGED <<extVars, lists, last, calls, call, lo, tf, pl, sub, tabs, settled>>

\* login resolved: the loop ends and robustLogin returns the tab.
RobustLoginReturn ==
  /\ rl.pc = "awaitLogin" /\ lg.pc = "resolved"
  /\ LET w1 == Task_set(World, rl.task, "state", SUCCESS)
         w2 == taskFinally(w1, rl.task)
     IN /\ SetWorld(w2)
        /\ rl' = [rl EXCEPT !.pc = "resolved", !.attempts = @ + 1,
                            !.loggedInTabId = lg.tabId]
        /\ lg' = Idle
        /\ settled' = settled \cup {Settled("robustLogin", rl.task, null, null)}
  /\ UNCHANGED <<extVars, lists, last, calls, call, lo, tf, pl, sub, tabs>>

\* login rejected with WrongClient and attempts remain: logout is called.
RobustLoginLogout ==
  /\ rl.pc = "awaitLogin" /\ lg.pc = "rejected"
  /\ retryLogin(lg.error, rl.attempts, call.maxAttempts)
  /\ LET w1 == Task_set(World, rl.task, "status", "Logging out")
         w2 == createTask(w1, logoutData(rl.task))
     IN /\ SetWorld(logoutStartW(w2, lastTaskId, NoTab))
        /\ lo' = logoutStart(lastTaskId, NoTab)
        /\ rl' = [rl EXCEPT !.pc = "awaitLogout"]
        /\ lg' = Idle
  /\ UNCHANGED <<extVars, lists, last, calls, call, tf, pl, sub, tabs, settled>>

\* login rejected with another error or no attempt remains.
RobustLoginThrow ==
  /\ rl.pc = "awaitLogin" /\ lg.pc = "rejected"
  /\ ~retryLogin(lg.error, rl.attempts, call.maxAttempts)
  /\ LET c == taskCatch(World, rl.task, lg.error)
         w == taskFinally(c.w, rl.task)
     IN /\ SetWorld(w)
        /\ rl' = [rl EXCEPT !.pc = IF c.thrown = null THEN "resolved" ELSE "rejected",
                            !.error = c.thrown]
        /\ lg' = Idle
        /\ settled' = settled \cup {Settled("robustLogin", rl.task, lg.error, c.thrown)}
  /\ UNCHANGED <<extVars, lists, last, calls, call, lo, tf, pl, sub, tabs>>

\* logout resolved: the next attempt to log in starts.
RobustLoginAgain ==
  /\ rl.pc = "awaitLogout" /\ lo.pc = "resolved"
  /\ LET w1 == Task_set(World, rl.task, "status", "Logging in again")
         w2 == createTask(w1, loginData(rl.task))
     IN /\ SetWorld(w2)
        /\ lg' = loginStart(lastTaskId, call.keepTabOpen)
        /\ rl' = [rl EXCEPT !.pc = "awaitLogin", !.attempts = @ + 1]
        /\ lo' = Idle
  /\ UNCHANGED <<extVars, lists, last, calls, call, tf, pl, sub, tabs, settled>>

\* logout rejected inside the catch block of the loop: its error leaves the
\* loop.
RobustLoginLogoutThrow ==
  /\ rl.pc = "awaitLogout" /\ lo.pc = "rejected"
  /\ LET c == taskCatch(World, rl.task, lo.error)
         w == taskFinally(c.w, rl.task)
     IN /\ SetWorld(w)
        /\ rl' = [rl EXCEPT !.pc = IF c.thrown = null THEN "resolved" ELSE "rejected",
                            !.error = c.thrown]
        /\ lo' = Idle
        /\ settled' = settled \cup {Settled("robustLogin", rl.task, lo.error, c.thrown)}
  /\ UNCHANGED <<extVars, lists, last, calls, call, lg, tf, pl, sub, tabs>>

----------------------------------------------------------------------------
(* taskFunction (client_actions/utils), called by logout of user.ts *)

TaskFunctionErrors == {"LogoutError", "E1"}

\* What taskFunction does once func has settled; error is null when func
\* returned.
taskFunction(w, id, options, error) ==
  LET w1 == IF error # null THEN Task_setError(w, id, error)
            ELSE IF options.setStateBasedOnChildren
                 THEN [w EXCEPT !.tasks = setStateBasedOnChildren(@, id)]
            ELSE IF options.setState THEN Task_set(w, id, "state", SUCCESS)
            ELSE w
  IN [w |-> Task_markAsComplete(w1, id), thrown |-> error]

\* logout of user.ts up to the await of the logout request.
TaskFunctionCall ==
  /\ call.fn = "taskFunction" /\ tf.pc = "idle"
  /\ SetWorld(createTask(World, [parent |-> call.parentTaskId]))
  /\ tf' = [pc |-> "await", task |-> lastTaskId, error |-> null]
  /\ UNCHANGED <<extVars, lists, last, calls, call, rl, lg, lo, pl, sub, tabs, settled>>

\* The request resolved and the page shows the logout message.
TaskFunctionReturn ==
  /\ tf.pc = "await"
  /\ LET r == taskFunction(World, tf.task, call.options, null)
     IN /\ SetWorld(r.w)
        /\ tf' = [tf EXCEPT !.pc = "resolved"]
        /\ settled' = settled \cup {Settled("taskFunction", tf.task, null, r.thrown)}
  /\ UNCHANGED <<extVars, lists, last, calls, call, rl, lg, lo, pl, sub, tabs>>

\* The request rejected, or the page does not show the logout message.
TaskFunctionThrow ==
  /\ tf.pc = "await"
  /\ \E e \in TaskFunctionErrors :
       LET r == taskFunction(World, tf.task, call.options, e)
       IN /\ SetWorld(r.w)
          /\ tf' = [tf EXCEPT !.pc = IF r.thrown = null THEN "resolved" ELSE "rejected",
                              !.error = r.thrown]
          /\ settled' = settled \cup {Settled("taskFunction", tf.task, e, r.thrown)}
  /\ UNCHANGED <<extVars, lists, last, calls, call, rl, lg, lo, pl, sub, tabs>>

----------------------------------------------------------------------------
(* getAllPendingLiabilities (client_actions/pending_liabilities.js) *)

\* The awaits of a per-tax-type promise: createTab, tabLoaded,
\* executeScript, sendMessage, tabLoaded, getTotals and, when the report has
\* more pages, clickElement and getTotals; the status of the step added
\* after each.
subAwaits == 8
subFirstTotals == 6
subStatus ==
  << "", "Selecting tax type", "Generating report", "", "Getting totals", "", "", "" >>

SubErrors == {"TaxTypeNotFound", "E1"}

\* taxTypes of constants: the name of the tax type with a numerical id.
taxTypes == <<"ITX", "VAT", "PAYE", "TOT", "WHT">>

subTitle(taxTypeId) == "Get " \o taxTypes[taxTypeId] \o " totals"

subData(parent, taxTypeId) ==
  [title |-> subTitle(taxTypeId), parent |-> parent, progressMax |-> R(4),
   status |-> "Opening tab"]

\* Mutant of createSubTasks: the tasks are created from the last tax type
\* to the first.
RECURSIVE createSubTasks_reversed(_, _, _)
createSubTasks_reversed(w, parent, n) ==
  IF n = 0 THEN w
  ELSE createSubTasks_reversed(createTask(w, subData(parent, n)), parent, n - 1)

\* The loop over taxTypeIds up to the first await of every promise.
RECURSIVE createSubTasks(_, _, _)
createSubTasks(w, parent, n) ==
  IF n = 0 THEN w
  ELSE createTask(createSubTasks(w, parent, n - 1), subData(parent, n))

\* func up to the first await of every promise: the parent is configured and
\* the tasks of the tax types are created in order.
LiabilitiesCall ==
  /\ call.fn = "liabilities" /\ pl.pc = "idle"
  /\ LET p == call.parentTaskId
         w1 == Task_set(World, p, "sequential", FALSE)
         w2 == Task_set(w1, p, "unknownMaxProgress", FALSE)
         w3 == Task_set(w2, p, "progressMax", R(call.taxTypes))
     IN /\ SetWorld(createSubTasks(w3, p, call.taxTypes))
        /\ sub' = [i \in 1..call.taxTypes |->
                     [pc |-> "await", at |-> 1, task |-> lastTaskId + i - 1,
                      tab |-> NoTab, resolved |-> FALSE]]
        /\ pl' = [pc |-> "awaitAll", task |-> p, totals |-> <<>>]
  /\ UNCHANGED <<extVars, lists, last, calls, call, rl, lg, lo, tf, tabs, settled>>

\* An await of a promise resolves and the promise goes on to its next await
\* (after the first getTotals: the report has more than one page).
SubResolve(i) ==
  /\ sub[i].pc = "await"
  /\ sub[i].at < subAwaits
  /\ LET tb == IF sub[i].at = 1 THEN createTab(tabs) ELSE tabs
         w == IF subStatus[sub[i].at] = "" THEN World
              ELSE Task_addStep(World, sub[i].task, subStatus[sub[i].at])
     IN /\ tabs' = tb
        /\ sub' = [sub EXCEPT ![i].at = @ + 1,
                              ![i].tab = IF sub[i].at = 1 THEN tb.opened ELSE @]
        /\ SetWorld(w)
  /\ UNCHANGED <<extVars, lists, last, calls, call, rl, lg, lo, tf, pl, settled>>

\* The totals that the report of a tax type shows.
totalsOf(taxTypeId) == "totals of " \o taxTypes[taxTypeId]

\* getTotals resolves with the totals of the last page: the promise is
\* resolved and the tab is asked to close.
SubTotals(i) ==
  /\ sub[i].pc = "await"
  /\ sub[i].at \in {subFirstTotals, subAwaits}
  /\ SetWorld(Task_set(World, sub[i].task, "state", SUCCESS))
  /\ tabs' = closeTab(tabs, sub[i].tab)
  /\ sub' = [sub EXCEPT ![i].pc = "closing", ![i].resolved = TRUE]
  /\ pl' = [pl EXCEPT !.totals = (taxTypes[i] :> totalsOf(i)) @@ @]
  /\ UNCHANGED <<extVars, lists, last, calls, call, rl, lg, lo, tf, settled>>

\* An await rejects: the error is recorded, the promise is resolved and the
\* tab, if one was opened, is asked to close; without a tab the task is
\* marked complete at once.
SubThrow(i) ==
  /\ sub[i].pc = "await"
  /\ \E e \in SubErrors :
       LET w1 == Task_setError(World, sub[i].task, e)
           w2 == IF isTaxTypeNotFound(e)
                 THEN Task_set(w1, sub[i].task, "errorString", "Tax type not found")
                 ELSE w1
       IN IF sub[i].tab # NoTab
          THEN /\ SetWorld(w2)
               /\ tabs' = closeTab(tabs, sub[i].tab)
               /\ sub' = [sub EXCEPT ![i].pc = "closing", ![i].resolved = TRUE]
          ELSE /\ SetWorld(Task_markAsComplete(w2, sub[i].task))
               /\ tabs' = tabs
               /\ sub' = [sub EXCEPT ![i].pc = "done", ![i].resolved = TRUE]
  /\ UNCHANGED <<extVars, lists, last, calls, call, rl, lg, lo, tf, pl, settled>>

\* closeTab settles (a failure to close is ignored): the task is marked
\* complete.
SubClosed(i) ==
  /\ sub[i].pc = "closing"
  /\ SetWorld(Task_markAsComplete(World, sub[i].task))
  /\ sub' = [sub EXCEPT ![i].pc = "done"]
  /\ UNCHANGED <<extVars, lists, last, calls, call, rl, lg, lo, tf, pl, tabs, settled>>

\* The state the Promise.all handler gives the parent.
liabilitiesState(ts, p) ==
  LET kids == children(ts, p)
      errorCount == Cardinality({i \in 1..Len(kids) :
                      kids[i].state = ERROR /\ ~isTaxTypeNotFound(kids[i].error)})
      taxTypeErrorCount == Cardinality({i \in 1..Len(kids) :
                      kids[i].state = ERROR /\ isTaxTypeNotFound(kids[i].error)})
  IN IF errorCount > 0 THEN ERROR
     ELSE IF Len(kids) > 0 /\ taxTypeErrorCount = Len(kids) THEN WARNING
     ELSE SUCCESS

\* Every promise is resolved: the handler of Promise.all runs.
LiabilitiesThen ==
  /\ pl.pc = "awaitAll"
  /\ \A i \in 1..Len(sub) : sub[i].resolved
  /\ LET st == liabilitiesState(tasks, pl.task)
         w1 == Task_set(World, pl.task, "state", st)
         w2 == IF st = WARNING THEN Task_set(w1, pl.task, "status", "No tax types found.")
               ELSE w1
     IN SetWorld(Task_markAsComplete(w2, pl.task))
  /\ pl' = [pl EXCEPT !.pc = "resolved"]
  /\ UNCHANGED <<extVars, lists, last, calls, call, rl, lg, lo, tf, sub, tabs, settled>>

----------------------------------------------------------------------------
(* parallelTaskMap (client_actions/utils), called by downloadReceipts of     *)
(* user.js with neverReject and by runInternal of getAllPendingLiabilities  *)
(* without                                                                   *)

MaxItems == 3

\* The items of the list, by position.
Items == <<"a", "b", "c", "d", "e">>

MapErrors == {"InvalidReceiptError", "E1"}

\* The options of taskFunction when the caller gives none.
taskFunctionDefaults == [setState |-> TRUE, setStateBasedOnChildren |-> FALSE]

\* downloadReceipts: the task that is parent to the tasks of the items.
receiptsData(parent) == [title |-> "Download receipts", parent |-> parent]

\* downloadReceipt: the task of an item.
receiptData(parent, item) ==
  [title |-> "Download receipt " \o item, parent |-> parent, progressMax |-> R(4),
   status |-> "Opening receipt tab"]

\* The value that the function returns for an item.
valueOf(item) == "value of " \o item

\* func is started for every item of the list, in the order of the list;
\* each call creates its task before its first await.
RECURSIVE startItems(_, _, _)
startItems(w, task, n) ==
  IF n = 0 THEN w
  ELSE createTask(startItems(w, task, n - 1), receiptData(task, Items[n]))

\* The response of an item whose call returned (thrown is null) or threw.
mapResponse(item, thrown) ==
  IF thrown = null THEN [item |-> item, kind |-> "value", payload |-> valueOf(item)]
  ELSE [item |-> item, kind |-> "error", payload |-> thrown]

\* Mutant of mapReady: a failure settles the map at once when it may reject.
mapReady_eager(m) ==
  \/ \A i \in 1..Len(m.unit) : m.unit[i].pc = "done"
  \/ ~m.neverReject /\ \E i \in DOMAIN m.responses : m.responses[i].kind = "error"

\* The map settles when the calls of all items have settled.
mapReady(m) == \A i \in 1..Len(m.unit) : m.unit[i].pc = "done"

mapOutcome(m) ==
  IF ~m.neverReject /\ \E i \in DOMAIN m.responses : m.responses[i].kind = "error"
  THEN "rejected" ELSE "resolved"

\* Mutant of getFailedResponseItems: the items of all responses.
getFailedResponseItems_all(responses) ==
  [i \in 1..Len(responses) |-> responses[i].item]

\* getFailedResponseItems of user.js: 'error' in response
getFailedResponseItems(responses) ==
  LET failed == SelectSeq(responses, LAMBDA r : r.kind = "error")
  IN [i \in 1..Len(failed) |-> failed[i].item]

\* The call up to the first await of every item.
MapCall ==
  /\ call.fn = "parallelTaskMap" /\ mp.pc = "idle"
  /\ LET w1 == IF call.neverReject
               THEN createTask(World, receiptsData(call.parentTaskId))
               ELSE World
         task == IF call.neverReject THEN lastTaskId ELSE call.parentTaskId
         n == call.items
     IN /\ SetWorld(startItems(w1, task, n))
        /\ mp' = [pc |-> "running", task |-> task, list |-> SubSeq(Items, 1, n),
                  neverReject |-> call.neverReject,
                  unit |-> [i \in 1..n |->
                              [pc |-> "await", task |-> w1.lastTaskId + i - 1,
                               thrown |-> null]],
                  responses |-> <<>>, order |-> <<>>, result |-> <<>>]
  /\ UNCHANGED <<lists, last, calls, call, rl, lg, lo, tf, pl, sub, tabs, settled,
                 units, tc, pg, rt, dr, tl, ul, rm>>

\* The call of an item returns.
MapItemReturn(i) ==
  /\ mp.pc # "idle" /\ i <= Len(mp.unit)
  /\ mp.unit[i].pc = "await"
  /\ LET r == taskFunction(World, mp.unit[i].task, taskFunctionDefaults, null)
     IN /\ SetWorld(r.w)
        /\ mp' = [mp EXCEPT !.unit[i].pc = "done",
                            !.responses = (i :> mapResponse(mp.list[i], r.thrown)) @@ @,
                            !.order = Append(@, i)]
  /\ UNCHANGED <<lists, last, calls, call, rl, lg, lo, tf, pl, sub, tabs, settled,
                 units, tc, pg, rt, dr, tl, ul, rm>>

\* The call of an item throws.
MapItemThrow(i) ==
  /\ mp.pc # "idle" /\ i <= Len(mp.unit)
  /\ mp.unit[i].pc = "await"
  /\ \E e \in MapErrors :
       LET r == taskFunction(World, mp.unit[i].task, taskFunctionDefaults, e)
       IN /\ SetWorld(r.w)
          /\ mp' = [mp EXCEPT !.unit[i].pc = "done", !.unit[i].thrown = e,
                              !.responses = (i :> mapResponse(mp.list[i], r.thrown)) @@ @,
                              !.order = Append(@, i)]
  /\ UNCHANGED <<lists, last, calls, call, rl, lg, lo, tf, pl, sub, tabs, settled,
                 units, tc, pg, rt, dr, tl, ul, rm>>

\* The map settles: the state of its task is set from the children and the
\* promise resolves with the responses in the order of the list, or rejects.
MapSettle ==
  /\ mp.pc = "running"
  /\ mapReady(mp)
  /\ tasks' = setStateBasedOnChildren(tasks, mp.task)
  /\ mp' = [mp EXCEPT !.pc = mapOutcome(mp),
                      !.result = IF mapOutcome(mp) = "resolved"
                                 THEN [i \in 1..Len(mp.list) |-> mp.responses[i]]
                                 ELSE <<>>]
  /\ UNCHANGED <<lists, lastTaskId, created, last, calls, call, rl, lg, lo, tf, pl,
                 sub, tabs, marks, settled, units, tc, pg, rt, dr, tl, ul, rm>>

----------------------------------------------------------------------------
(* downloadReceipt (client_actions/user.js) over createTabPost              *)
(* (content_scripts/helpers/zra.ts)                                         *)

DownloadErrors == {"E1"}

\* The awaits of createTabPost: createTab and tabLoaded, and in Firefox
\* executeScript and sendMessage after them.
postAwaits(isFirefox) == IF isFirefox THEN 4 ELSE 2

\* The awaits of downloadReceipt: those of createTabPost, then tabLoaded,
\* runContentScript and saveAsMHTML inside the try block, then the downloads.
downloadAwaits(isFirefox) == postAwaits(isFirefox) + 4

\* The await is one of the try block, whose finally closes the tab.
inDownloadTry(at, isFirefox) ==
  at > postAwaits(isFirefox) /\ at < downloadAwaits(isFirefox)

\* The step that is added when an await has resolved.
downloadStatus(at, isFirefox) ==
  IF at = postAwaits(isFirefox) THEN "Waiting for receipt to load"
  ELSE IF at = postAwaits(isFirefox) + 2 THEN "Converting receipt to MHTML"
  ELSE IF at = postAwaits(isFirefox) + 3 THEN "Downloading generated MHTML"
  ELSE ""

downloadUnchanged ==
  UNCHANGED <<lists, last, calls, call, rl, lg, lo, tf, pl, sub, units, tc, mp, pg, rt, tl, ul, rm>>

\* The call up to its first await, createTab of createTabPost.
DownloadCall ==
  /\ call.fn = "downloadReceipt" /\ dr.pc = "idle"
  /\ SetWorld(createTask(World, receiptData(call.parentTaskId, Items[1])))
  /\ dr' = [pc |-> "await", at |-> 1, task |-> lastTaskId, tab |-> NoTab, error |-> null]
  /\ UNCHANGED <<tabs, settled>>
  /\ downloadUnchanged

\* An await other than the last resolves: createTab opens the tab, and the
\* tab is closed when saveAsMHTML has resolved.
DownloadResolve ==
  /\ dr.pc = "await" /\ dr.at < downloadAwaits(call.isFirefox)
  /\ LET tb == IF dr.at = 1 THEN createTab(tabs)
               ELSE IF dr.at = downloadAwaits(call.isFirefox) - 1 THEN closeTab(tabs, dr.tab)
               ELSE tabs
         status == downloadStatus(dr.at, call.isFirefox)
     IN /\ tabs' = tb
        /\ dr' = [dr EXCEPT !.at = @ + 1, !.tab = IF dr.at = 1 THEN tb.opened ELSE @]
        /\ SetWorld(IF status = "" THEN World ELSE Task_addStep(World, dr.task, status))
  /\ UNCHANGED settled
  /\ downloadUnchanged

\* The receipt that get_receipt_data returns has no reference number.
DownloadInvalid ==
  /\ dr.pc = "await" /\ dr.at = postAwaits(call.isFirefox) + 2
  /\ LET r == taskFunction(World, dr.task, taskFunctionDefaults, "InvalidReceiptError")
     IN /\ SetWorld(r.w)
        /\ tabs' = closeTab(tabs, dr.tab)
        /\ dr' = [dr EXCEPT !.pc = "rejected", !.error = r.thrown]
        /\ settled' = settled \cup {Settled("downloadReceipt", dr.task, r.thrown, r.thrown)}
  /\ downloadUnchanged

\* The downloads are done.
DownloadReturn ==
  /\ dr.pc = "await" /\ dr.at = downloadAwaits(call.isFirefox)
  /\ SetWorld(taskFunction(World, dr.task, taskFunctionDefaults, null).w)
  /\ dr' = [dr EXCEPT !.pc = "resolved"]
  /\ settled' = settled \cup {Settled("downloadReceipt", dr.task, null, null)}
  /\ UNCHANGED tabs
  /\ downloadUnchanged

\* An await rejects.  Only the finally of the try block closes the tab:
\* createTabPost has no handler of its own and is awaited before the try
\* block.  A download that fails leaves its promise pending.
DownloadThrow ==
  /\ dr.pc = "await"
  /\ \E e \in DownloadErrors :
       IF dr.at = downloadAwaits(call.isFirefox)
       THEN /\ dr' = [dr EXCEPT !.pc = "hung"]
            /\ UNCHANGED <<tasks, marks, lastTaskId, created, tabs, settled>>
       ELSE LET r == taskFunction(World, dr.task, taskFunctionDefaults, e)
            IN /\ SetWorld(r.w)
               /\ tabs' = IF inDownloadTry(dr.at, call.isFirefox)
                          THEN closeTab(tabs, dr.tab) ELSE tabs
               /\ dr' = [dr EXCEPT !.pc = "rejected", !.error = r.thrown]
               /\ settled' = settled \cup {Settled("downloadReceipt", dr.task, e, r.thrown)}
  /\ downloadUnchanged

----------------------------------------------------------------------------
(* The client actions started by their caller *)

\* The calls: the parent task is the task of the caller.
RunCalls ==
  {[fn |-> "robustLogin", parentTaskId |-> 0, maxAttempts |-> m, keepTabOpen |-> k] :
     m \in 1..MaxAttempts, k \in BOOLEAN}
  \cup {[fn |-> "logout", parentTaskId |-> 0, loggedInTabId |-> t] : t \in {NoTab, 1}}
  \cup {[fn |-> "taskFunction", parentTaskId |-> 0,
         options |-> [setState |-> a, setStateBasedOnChildren |-> b]] :
          a \in BOOLEAN, b \in BOOLEAN}
  \cup {[fn |-> "liabilities", parentTaskId |-> 0, taxTypes |-> n] : n \in 1..MaxTaxTypes}
  \cup {[fn |-> "parallelTaskMap", parentTaskId |-> 0, items |-> n, neverReject |-> b] :
          n \in 0..MaxItems, b \in BOOLEAN}
  \cup {[fn |-> "downloadReceipt", parentTaskId |-> 0, isFirefox |-> b] : b \in BOOLEAN}

\* The store holds the task of the caller, created by create.
InitRun ==
  /\ call \in RunCalls
  /\ tasks = createTasks(<<>>, 0, [parent |-> NoParent])
  /\ lists = createLists([n \in ListNames |-> <<>>], 0, [parent |-> NoParent], "all")
  /\ lastTaskId = incrLastTaskId(0)
  /\ created = <<0>>
  /\ last = [op |-> "create", id |-> 0]
  /\ calls = 1
  /\ rl = Idle /\ lg = Idle /\ lo = Idle /\ tf = Idle /\ pl = Idle
  /\ sub = <<>>
  /\ tabs = IF call.fn = "logout" /\ call.loggedInTabId # NoTab
            THEN createTab([opened |-> 0, open |-> {}])
            ELSE [opened |-> 0, open |-> {}]
  /\ marks = (0 :> 0)
  /\ settled = {}
  /\ units = <<>> /\ tc = Idle /\ mp = Idle /\ pg = Idle /\ rt = Idle /\ dr = Idle /\ tl = Idle /\ ul = Idle /\ rm = Idle

NextRun ==
  \/ RobustLoginCall
  \/ RobustLoginReturn
  \/ RobustLoginLogout
  \/ RobustLoginThrow
  \/ RobustLoginAgain
  \/ RobustLoginLogoutThrow
  \/ LoginResolve
  \/ LoginReturn
  \/ LoginThrow
  \/ LogoutCall
  \/ LogoutResolve
  \/ LogoutReturn
  \/ LogoutThrow
  \/ TaskFunctionCall
  \/ TaskFunctionReturn
  \/ TaskFunctionThrow
  \/ LiabilitiesCall
  \/ LiabilitiesThen
  \/ \E i \in 1..Len(sub) : SubResolve(i)
  \/ \E i \in 1..Len(sub) : SubTotals(i)
  \/ \E i \in 1..Len(sub) : SubThrow(i)
  \/ \E i \in 1..Len(sub) : SubClosed(i)
  \/ MapCall
  \/ \E i \in 1..MaxItems : MapItemReturn(i)
  \/ \E i \in 1..MaxItems : MapItemThrow(i)
  \/ MapSettle
  \/ DownloadCall
  \/ DownloadResolve
  \/ DownloadInvalid
  \/ DownloadReturn
  \/ DownloadThrow

SpecRun == InitRun /\ [][NextRun]_vars

----------------------------------------------------------------------------
(* Properties of the task runners *)

\* C1: once the promise of login, logout, robustLogin or taskFunction has
\* settled, resolved or rejected, the task is complete and its progress is
\* its progressMax.
C1_CompleteWhenSettled ==
  \A s \in settled :
    /\ complete(tasks, s.task)
    /\ progress(tasks, s.task) = progressMax(tasks, s.task)

\* robustLogin rejected after a login, a logout and a second login.
C1_Witness ==
  \E s \in settled :
    /\ s.fn = "robustLogin" /\ s.outcome = "rejected"
    /\ Len(tasks[s.task].children) = 3
    /\ \A c \in ChildSetOf(tasks, s.task) : \E t \in settled : t.task = c

\* C2: when the wrapped code throws E, the promise of the runner rejects
\* with E and the task has state ERROR, error E and the rendering of E as
\* errorString.
C2_ErrorPropagates ==
  \A s \in settled :
    s.thrown # null =>
      /\ s.outcome = "rejected"
      /\ s.error = s.thrown
      /\ tasks[s.task].state = ERROR
      /\ tasks[s.task].error = s.thrown
      /\ tasks[s.task].errorString = errorToString(s.thrown)

\* robustLogin rejected with the error of the logout, after a login that was
\* rejected with another error.
C2_Witness ==
  \E s, t \in settled :
    /\ s.fn = "robustLogin" /\ s.outcome = "rejected"
    /\ t.fn = "login" /\ t.outcome = "rejected"
    /\ t.task \in ChildSetOf(tasks, s.task)
    /\ s.error # t.error
    /\ tasks[s.task].error = s.error

\* C3: markAsComplete is called at most once on a task, and exactly once on
\* the task of a runner that has settled and on the task of a per-tax-type
\* promise that has finished.
C3_MarkedOnce ==
  /\ \A id \in DOMAIN marks : marks[id] <= 1
  /\ \A s \in settled : marks[s.task] = 1
  /\ \A i \in 1..Len(sub) : sub[i].pc = "done" => marks[sub[i].task] = 1

\* A per-tax-type promise finished after a failure with its tab open, and
\* the other one without a failure.
C3_Witness ==
  \E i, j \in 1..Len(sub) :
    /\ sub[i].pc = "done" /\ sub[j].pc = "done"
    /\ tasks[sub[i].task].state = ERROR /\ sub[i].tab # NoTab
    /\ tasks[sub[j].task].state = SUCCESS
    /\ marks[sub[i].task] = 1 /\ marks[sub[j].task] = 1

----------------------------------------------------------------------------
(* Properties of the store *)

ChildSet(id) == ChildSetOf(tasks, id)
AutoChildSet(id) == {c \in ChildSet(id) : tasks[c].autoUpdateParent}

\* The position in children of the first child that updates its parent and
\* is not complete; 0 when there is none.
FirstOpenChild(id) ==
  LET open == {i \in 1..Len(tasks[id].children) :
                 /\ tasks[tasks[id].children[i]].autoUpdateParent
                 /\ ~complete(tasks, tasks[id].children[i])}
  IN IF open = {} THEN 0 ELSE CHOOSE i \in open : \A j \in open : i <= j

RECURSIVE SumOver(_, _)
SumOver(f, S) ==
  IF S = {} THEN R(0)
  ELSE LET x == CHOOSE y \in S : TRUE IN RAdd(f[x], SumOver(f, S \ {x}))

C5_CompleteDerived ==
  \A id \in DOMAIN tasks :
    IF AutoChildSet(id) # {}
    THEN complete(tasks, id) = (\A c \in AutoChildSet(id) : complete(tasks, c))
    ELSE complete(tasks, id) = tasks[id].complete

C5_Witness ==
  \E id \in DOMAIN tasks :
    /\ AutoChildSet(id) # {}
    /\ ~tasks[id].complete
    /\ complete(tasks, id)
    /\ \E c \in AutoChildSet(id) : AutoChildSet(c) # {} /\ ~tasks[c].complete

\* C6: the progress of an incomplete sequential parent with an unknown
\* maximum is the progress of its first child, in creation order, that
\* updates its parent and is not complete.
C6_SequentialProgress ==
  \A id \in DOMAIN tasks :
    (/\ tasks[id].unknownMaxProgress /\ tasks[id].sequential
     /\ ~complete(tasks, id) /\ FirstOpenChild(id) # 0) =>
      progress(tasks, id) = progress(tasks, tasks[id].children[FirstOpenChild(id)])

\* The first child is complete and the progress is the one of the second.
C6_Witness ==
  \E id \in DOMAIN tasks :
    /\ tasks[id].unknownMaxProgress /\ tasks[id].sequential
    /\ ~complete(tasks, id)
    /\ FirstOpenChild(id) = 2
    /\ tasks[tasks[id].children[1]].autoUpdateParent
    /\ progress(tasks, id) # progress(tasks, tasks[id].children[1])
    /\ progress(tasks, id) # R(0)

ParallelSums(id) ==
  /\ progress(tasks, id) =
       SumOver([c \in AutoChildSet(id) |-> progress(tasks, c)], AutoChildSet(id))
  /\ progressMax(tasks, id) =
       SumOver([c \in AutoChildSet(id) |-> progressMax(tasks, c)], AutoChildSet(id))

\* C7 as stated: every incomplete parallel parent with an unknown maximum has
\* the sums over its auto-updating children as progress and progressMax.
C7_Original ==
  \A id \in DOMAIN tasks :
    (/\ tasks[id].unknownMaxProgress /\ ~tasks[id].sequential
     /\ ChildSet(id) # {} /\ ~complete(tasks, id)) => ParallelSums(id)

\* C7: an incomplete parallel parent with an unknown maximum and at least one
\* auto-updating child has the sum of the progress of its auto-updating
\* children as progress and the sum of their progressMax as progressMax.
C7_ParallelProgress ==
  \A id \in DOMAIN tasks :
    (/\ tasks[id].unknownMaxProgress /\ ~tasks[id].sequential
     /\ AutoChildSet(id) # {} /\ ~complete(tasks, id)) => ParallelSums(id)

C7_Witness ==
  \E id \in DOMAIN tasks :
    /\ tasks[id].unknownMaxProgress /\ ~tasks[id].sequential
    /\ ~complete(tasks, id)
    /\ Cardinality(AutoChildSet(id)) >= 2
    /\ \A c \in AutoChildSet(id) : progress(tasks, c) # R(0)
    /\ progress(tasks, id) # tasks[id].progress
    /\ progressMax(tasks, id) # tasks[id].progressMax

\* C8: the progress of every task is at least 0 and at most its progressMax.
C8_ProgressWithinMax ==
  \A id \in DOMAIN tasks :
    /\ RLe(R(0), progress(tasks, id))
    /\ RLe(progress(tasks, id), progressMax(tasks, id))

\* C9 as stated: right after markAsComplete the task is complete, its
\* progress is its progressMax and its status is empty.
C9_Original ==
  last.op = "markAsComplete" =>
    /\ complete(tasks, last.id)
    /\ progress(tasks, last.id) = progressMax(tasks, last.id)
    /\ tasks[last.id].status = ""

\* C9: right after markAsComplete the stored complete flag of the task is
\* set, its stored progress is its derived progressMax and its status is
\* empty; when none of its auto-updating children is incomplete the task is
\* complete and its progress is its progressMax.
C9_MarkAsComplete ==
  last.op = "markAsComplete" =>
    /\ tasks[last.id].complete
    /\ tasks[last.id].progress = progressMax(tasks, last.id)
    /\ tasks[last.id].status = ""
    /\ (\A c \in AutoChildSet(last.id) : complete(tasks, c)) =>
         /\ complete(tasks, last.id)
         /\ progress(tasks, last.id) = progressMax(tasks, last.id)

C9_Witness ==
  /\ last.op = "markAsComplete"
  /\ AutoChildSet(last.id) # {}
  /\ \E c \in AutoChildSet(last.id) : ~complete(tasks, c)
  /\ tasks[last.id].progress # tasks[last.id].progressMax

\* C10: the ids that create assigns are strictly increasing in call order,
\* so no id is assigned twice, also after tasks were removed.
C10_IdsIncrease ==
  /\ \A i, j \in 1..Len(created) : i < j => created[i] < created[j]
  /\ \A i \in 1..Len(created) : created[i] < lastTaskId
  /\ DOMAIN tasks \subseteq {created[i] : i \in 1..Len(created)}

C10_Witness ==
  /\ last.op = "create"
  /\ Len(created) >= 2
  /\ \E i \in 1..Len(created) : created[i] \notin DOMAIN tasks

\* The number of positions of a sequence that hold x.
Occurrences(seq, x) == Cardinality({i \in 1..Len(seq) : seq[i] = x})

\* C11: right after create under a parent that is in the store the new id is
\* the last of the parent's children, is there once and is in no top-level
\* list; right after create without parent the new id is the last of the
\* named list, is there once and is no task's child.  The children of every
\* task are in the order in which they were created.
C11_Registered ==
  /\ (last.op = "create" /\ ~last.threw) =>
       LET id == last.id
           p == tasks[id].parent
       IN IF p # NoParent
          THEN /\ tasks[p].children[Len(tasks[p].children)] = id
               /\ Occurrences(tasks[p].children, id) = 1
               /\ \A n \in ListNames : Occurrences(lists[n], id) = 0
          ELSE /\ lists[last.list][Len(lists[last.list])] = id
               /\ Occurrences(lists[last.list], id) = 1
               /\ \A n \in ListNames \ {last.list} : Occurrences(lists[n], id) = 0
               /\ \A t \in DOMAIN tasks : Occurrences(tasks[t].children, id) = 0
  /\ \A t \in DOMAIN tasks :
       \A i, j \in 1..Len(tasks[t].children) :
         i < j => tasks[t].children[i] < tasks[t].children[j]

\* The third task was created as second child of the first, and a root was
\* put on the list login.
C11_Witness ==
  /\ last.op = "create" /\ ~last.threw
  /\ tasks[last.id].parent # NoParent
  /\ Len(tasks[tasks[last.id].parent].children) >= 2
  /\ Len(lists["login"]) >= 1

\* C12: create does not throw, and the task it made is on a top-level list
\* or among the children of its parent.
C12_CreateNeverFails ==
  last.op = "create" =>
    /\ ~last.threw
    /\ \/ \E n \in ListNames : Occurrences(lists[n], last.id) = 1
       \/ /\ tasks[last.id].parent \in DOMAIN tasks
          /\ Occurrences(tasks[tasks[last.id].parent].children, last.id) = 1

----------------------------------------------------------------------------
(* Callers that run concurrently and add steps to the tasks of the store *)

MaxUnits == 2
MaxSteps == 2
MaxIncrement == 2

\* The status text of the n-th step of caller u.
stepStatus(u, n) == "caller " \o ToString(u) \o " step " \o ToString(n)

\* Task.addStep(status, increment = null): without increment the store takes
\* its default 1.
Task_addStepBy(ts, id, status, given, increment) ==
  addStep(ts, id, status, IF given THEN increment ELSE 1)

\* The store holds a root task and a child of it; every caller was handed
\* one of the two tasks.
InitSteps ==
  /\ \E f \in CreateFlags, a \in BOOLEAN :
       LET root == [parent |-> NoParent] @@ f
           kid == [parent |-> 0, autoUpdateParent |-> a]
       IN /\ tasks = createTasks(createTasks(<<>>, 0, root), 1, kid)
          /\ lists = createLists([n \in ListNames |-> <<>>], 0, root, "all")
  /\ lastTaskId = incrLastTaskId(incrLastTaskId(0))
  /\ created = <<0, 1>>
  /\ last = [op |-> "create", id |-> 1, list |-> "all", threw |-> FALSE]
  /\ calls = 2
  /\ call = [fn |-> "none"]
  /\ rl = Idle /\ lg = Idle /\ lo = Idle /\ tf = Idle /\ pl = Idle
  /\ sub = <<>>
  /\ tabs = [opened |-> 0, open |-> {}]
  /\ marks = <<>>
  /\ settled = {}
  /\ units \in [1..MaxUnits -> {[task |-> t, steps |-> 0, added |-> 0] : t \in {0, 1}}]
  /\ tc = Idle /\ mp = Idle /\ pg = Idle /\ rt = Idle /\ dr = Idle /\ tl = Idle /\ ul = Idle /\ rm = Idle

\* A caller resumes after an await and adds a step to its task; the call
\* runs to its end before any other caller resumes.
UnitAddStep(u) ==
  /\ units[u].steps < MaxSteps
  /\ \E given \in BOOLEAN, increment \in 1..MaxIncrement :
       LET id == units[u].task
           k == IF given THEN increment ELSE 1
           status == stepStatus(u, units[u].steps + 1)
       IN /\ tasks' = Task_addStepBy(tasks, id, status, given, increment)
          /\ units' = [units EXCEPT ![u].steps = @ + 1, ![u].added = @ + k]
          /\ last' = [op |-> "addStep", id |-> id, status |-> status, increment |-> k,
                      before |-> progress(tasks, id)]
  /\ calls' = calls + 1
  /\ UNCHANGED <<lists, lastTaskId, created, call, rl, lg, lo, tf, pl, sub, tabs,
                 marks, settled, tc, mp, pg, rt, dr, tl, ul, rm>>

NextSteps == \E u \in DOMAIN units : UnitAddStep(u)

SpecSteps == InitSteps /\ [][NextSteps]_vars

\* The sum of the increments that the callers added to a task.
RECURSIVE AddedBy(_, _)
AddedBy(id, u) ==
  IF u = 0 THEN 0
  ELSE AddedBy(id, u - 1) + (IF units[u].task = id THEN units[u].added ELSE 0)

Added(id) == AddedBy(id, Len(units))

\* C13: right after addStep the status of the task is the given text and the
\* progress read for it is the progress read before plus the increment;
\* after every interleaving of the callers the progress of a task has grown
\* by the sum of the increments added to it.
C13_AddStepRaises ==
  /\ last.op = "addStep" =>
       /\ tasks[last.id].status = last.status
       /\ progress(tasks, last.id) = RAdd(last.before, R(last.increment))
  /\ \A id \in DOMAIN tasks : progress(tasks, id) = R(Added(id))

----------------------------------------------------------------------------
(* The tab creator (TabCreator of content_scripts/helpers/zra.ts) *)

MaxRequests == 3
MaxOpenTabs == 2
MaxDelay == 2

\* lastTabOpenTime === null
NoTime == -1

\* The clock is kept relative to the last grant: elapsed is
\* Date.now() - lastTabOpenTime, counted up to tabOpenDelay, and a timer is
\* the time that is left until it is due.
Min(a, b) == IF a < b THEN a ELSE b
Max(a, b) == IF a > b THEN a ELSE b

\* Mutant of slotFree: the number of open tabs is not looked at.
slotFree_noCount(t) == t.elapsed = NoTime \/ t.elapsed >= t.tabOpenDelay

\* Mutant of slotFree: the delay is not looked at.
slotFree_noDelay(t) == t.maxOpenTabs = 0 \/ t.openTabsCount < t.maxOpenTabs

slotFree(t) ==
  LET notMaxOpenTabs == t.maxOpenTabs = 0 \/ t.openTabsCount < t.maxOpenTabs
      delayLargeEnough == t.elapsed = NoTime \/ t.elapsed >= t.tabOpenDelay
  IN notMaxOpenTabs /\ delayLargeEnough

\* Mutant of queueShift: takes the request that was queued last.
queueShift_last(q) == [callback |-> q[Len(q)], rest |-> SubSeq(q, 1, Len(q) - 1)]

\* this.queue.shift()
queueShift(q) == [callback |-> Head(q), rest |-> Tail(q)]

\* Mutant of startDrainQueueTimer: no timer is started.
startDrainQueueTimer_none(t) == t

startDrainQueueTimer(t) ==
  IF t.tabOpenDelay > 0 THEN [t EXCEPT !.timers = Append(@, t.tabOpenDelay)] ELSE t

\* The loop of drainQueue; the callback resolves the promise of the request,
\* which is recorded as a grant.
RECURSIVE drainLoop(_)
drainLoop(t) ==
  IF Len(t.queue) > 0 /\ slotFree(t)
  THEN LET s == queueShift(t.queue)
           t1 == [t EXCEPT !.queue = s.rest, !.openTabsCount = @ + 1,
                           !.gaps = Append(@, t.elapsed), !.by = Append(@, t.cause),
                           !.elapsed = 0]
           t2 == startDrainQueueTimer(t1)
       IN drainLoop([t2 EXCEPT !.req[s.callback] = "granted",
                               !.grants = Append(@, s.callback)])
  ELSE t

drainQueue(t) ==
  IF ~t.drainingQueue
  THEN [drainLoop([t EXCEPT !.drainingQueue = TRUE]) EXCEPT !.drainingQueue = FALSE]
  ELSE t

\* waitForFreeTabSlot for request r
waitForFreeTabSlot(t, r) ==
  drainQueue([t EXCEPT !.queue = Append(@, r), !.req[r] = "queued",
                       !.cause = "request"])

\* The listener of browser.tabs.onRemoved
onRemoved(t, tabId) ==
  IF \E i \in 1..Len(t.tabs) : t.tabs[i] = tabId
  THEN drainQueue([t EXCEPT !.openTabsCount = @ - 1,
                           !.tabs = SelectSeq(@, LAMBDA x : x # tabId),
                           !.cause = "removed"])
  ELSE t

\* The state after the constructor, for a configuration of the extension.
\* History: req is the state of every request, grants the requests in the
\* order of their grants, gaps the time since the grant before and by the
\* caller of the drainQueue that made the grant (cause is the caller of the
\* drainQueue that ran last).
newTabCreator(maxOpenTabs, tabOpenDelay) ==
  [ maxOpenTabs |-> maxOpenTabs, tabOpenDelay |-> tabOpenDelay,
    tabs |-> <<>>, openTabsCount |-> 0, elapsed |-> NoTime, queue |-> <<>>,
    drainingQueue |-> FALSE, timers |-> <<>>,
    req |-> [r \in 1..MaxRequests |-> "none"], grants |-> <<>>, gaps |-> <<>>,
    by |-> <<>>, cause |-> "none" ]

InitTabs ==
  /\ tasks = <<>>
  /\ lists = [n \in ListNames |-> <<>>]
  /\ lastTaskId = 0
  /\ created = <<>>
  /\ last = [op |-> "init"]
  /\ calls = 0
  /\ call = [fn |-> "none"]
  /\ rl = Idle /\ lg = Idle /\ lo = Idle /\ tf = Idle /\ pl = Idle
  /\ sub = <<>>
  /\ tabs = [opened |-> 0, open |-> {}]
  /\ marks = <<>>
  /\ settled = {}
  /\ units = <<>> /\ mp = Idle /\ pg = Idle /\ rt = Idle /\ dr = Idle /\ tl = Idle /\ ul = Idle /\ rm = Idle
  /\ \E n \in 0..MaxOpenTabs, d \in 0..MaxDelay : tc = newTabCreator(n, d)

tabsUnchanged ==
  UNCHANGED <<tasks, lists, lastTaskId, created, last, calls, call, rl, lg, lo, tf,
              pl, sub, tabs, marks, settled, units, mp, pg, rt, dr, tl, ul, rm>>

\* tabCreator.create is called: the requests are numbered in call order.
TabRequest(r) ==
  /\ tc.req[r] = "none"
  /\ \A q \in 1..(r - 1) : tc.req[q] # "none"
  /\ tc' = waitForFreeTabSlot(tc, r)
  /\ tabsUnchanged

\* browser.tabs.create resolves for a granted request; the tab gets the
\* number of the request as id and is tracked.
TabCreated(r) ==
  /\ tc.req[r] = "granted"
  /\ tc' = [tc EXCEPT !.tabs = Append(@, r), !.req[r] = "open"]
  /\ tabsUnchanged

\* browser.tabs.create rejects: create rejects and no tab is tracked.
TabCreateFails(r) ==
  /\ tc.req[r] = "granted"
  /\ tc' = [tc EXCEPT !.req[r] = "failed"]
  /\ tabsUnchanged

\* A tab that create returned is closed, by the extension or by the user.
TabRemoved(r) ==
  /\ tc.req[r] = "open"
  /\ tc' = [onRemoved(tc, r) EXCEPT !.req[r] = "closed"]
  /\ tabsUnchanged

\* The timer that is due first fires.
TabTimer ==
  /\ Len(tc.timers) > 0
  /\ Head(tc.timers) = 0
  /\ tc' = drainQueue([tc EXCEPT !.timers = Tail(@), !.cause = "timer"])
  /\ tabsUnchanged

\* A millisecond passes.
TabTick ==
  /\ tc' = [tc EXCEPT
              !.elapsed = IF @ = NoTime THEN NoTime ELSE Min(@ + 1, tc.tabOpenDelay),
              !.timers = [i \in 1..Len(@) |-> Max(@[i] - 1, 0)]]
  /\ tabsUnchanged

NextTabs ==
  \/ \E r \in 1..MaxRequests : TabRequest(r)
  \/ \E r \in 1..MaxRequests : TabCreated(r)
  \/ \E r \in 1..MaxRequests : TabCreateFails(r)
  \/ \E r \in 1..MaxRequests : TabRemoved(r)
  \/ TabTimer
  \/ TabTick

SpecTabs == InitTabs /\ [][NextTabs]_vars

\* The tab creator when every tab is created and closed in the end, timers
\* fire and time passes.
NextTabsLive ==
  \/ \E r \in 1..MaxRequests : TabRequest(r)
  \/ \E r \in 1..MaxRequests : TabCreated(r)
  \/ \E r \in 1..MaxRequests : TabRemoved(r)
  \/ TabTimer
  \/ TabTick

SpecTabsLive ==
  /\ InitTabs
  /\ [][NextTabsLive]_vars
  /\ \A r \in 1..MaxRequests : WF_vars(TabCreated(r)) /\ WF_vars(TabRemoved(r))
  /\ WF_vars(TabTimer)
  /\ WF_vars(TabTick)

----------------------------------------------------------------------------
(* Properties of the tab creator *)

\* The requests that were granted and whose tab has not closed.
Held == {r \in 1..MaxRequests : tc.req[r] \in {"granted", "open", "failed"}}

\* C14: openTabsCount is the number of granted requests whose tab has not
\* closed, and with maxOpenTabs > 0 it is at most maxOpenTabs (so with 1 no
\* request is granted while the tab of another is not closed); with
\* maxOpenTabs = 0 a slot is free whenever the delay has passed, and without
\* delay no request waits.
C14_OpenTabsBound ==
  /\ tc.openTabsCount = Cardinality(Held)
  /\ tc.maxOpenTabs > 0 => tc.openTabsCount <= tc.maxOpenTabs
  /\ tc.maxOpenTabs = 0 =>
       /\ slotFree(tc) = (tc.elapsed = NoTime \/ tc.elapsed >= tc.tabOpenDelay)
       /\ tc.tabOpenDelay = 0 => Len(tc.queue) = 0

\* One tab at a time without delay: the first tab closed, the second
\* request holds the slot and the third waits.
C14_Witness ==
  /\ tc.maxOpenTabs = 1 /\ tc.tabOpenDelay = 0
  /\ tc.req[1] = "closed" /\ tc.req[2] = "open"
  /\ tc.queue = <<3>>

\* C15: with tabOpenDelay > 0 every grant but the first comes at least
\* tabOpenDelay after the grant before it, whoever called drainQueue.
C15_GrantsApart ==
  tc.tabOpenDelay > 0 =>
    \A i \in 2..Len(tc.gaps) : tc.gaps[i] >= tc.tabOpenDelay

\* Three grants, one by a request, one by the timer and one by a closed tab.
C15_Witness ==
  /\ tc.tabOpenDelay = MaxDelay
  /\ Len(tc.grants) = 3
  /\ {tc.by[i] : i \in 1..3} = {"request", "timer", "removed"}

\* C16: the requests are granted in the order in which they were made.
C16_Fifo ==
  \A i, j \in 1..Len(tc.grants) : i < j => tc.grants[i] < tc.grants[j]

\* The tab of the second request closed before the tab of the first, and
\* the third request was granted after it.
C16_Witness ==
  /\ tc.grants = <<1, 2, 3>>
  /\ tc.req[1] = "open" /\ tc.req[2] = "closed"
  /\ tc.by[3] = "removed"

----------------------------------------------------------------------------
(* Properties of the parallel batches *)

MapSettled == mp.pc \in {"resolved", "rejected"}

\* The positions of the list whose call threw.
MapFailed == {i \in 1..Len(mp.unit) : mp.unit[i].thrown # null}

\* C18: with neverReject the map resolves, after the calls of all items ran
\* to their end, with one response per item of the list; the response of an
\* item has an error exactly when its call threw, and getFailedResponseItems
\* gives the items whose call threw.
C18_NeverReject ==
  (mp.pc # "idle" /\ mp.neverReject /\ MapSettled) =>
    /\ mp.pc = "resolved"
    /\ Len(mp.result) = Len(mp.list)
    /\ \A i \in 1..Len(mp.list) :
         /\ mp.result[i].item = mp.list[i]
         /\ (mp.result[i].kind = "error") = (i \in MapFailed)
         /\ mp.unit[i].pc = "done"
         /\ complete(tasks, mp.unit[i].task)
         /\ tasks[mp.unit[i].task].state = IF i \in MapFailed THEN ERROR ELSE SUCCESS
    /\ LET failed == getFailedResponseItems(mp.result)
       IN {failed[i] : i \in 1..Len(failed)} = {mp.list[i] : i \in MapFailed}

\* Three items of which the second threw first; the other two ran on and
\* returned.
C18_Witness ==
  /\ mp.pc = "resolved" /\ mp.neverReject
  /\ Len(mp.list) = 3
  /\ MapFailed = {2}
  /\ mp.order[1] = 2
  /\ getFailedResponseItems(mp.result) = <<"b">>

ChildTitle(id, i) == tasks[tasks[id].children[i]].title

\* C20: the i-th child of the task of a batch is the task of the i-th item
\* and the result for an item is the result of that item, in every order in
\* which the items complete: for the tax types of getAllPendingLiabilities
\* and for the items of a map.
C20_ItemOrder ==
  /\ pl.pc # "idle" =>
       /\ Len(tasks[pl.task].children) = Len(sub)
       /\ \A i \in 1..Len(sub) :
            /\ tasks[pl.task].children[i] = sub[i].task
            /\ ChildTitle(pl.task, i) = subTitle(i)
            /\ taxTypes[i] \in DOMAIN pl.totals => pl.totals[taxTypes[i]] = totalsOf(i)
  /\ mp.pc # "idle" =>
       /\ Len(tasks[mp.task].children) = Len(mp.list)
       /\ \A i \in 1..Len(mp.list) :
            /\ tasks[mp.task].children[i] = mp.unit[i].task
            /\ ChildTitle(mp.task, i) = receiptData(mp.task, mp.list[i]).title
            /\ i \in DOMAIN mp.responses => mp.responses[i].item = mp.list[i]
       /\ mp.pc = "resolved" =>
            \A i \in 1..Len(mp.list) : mp.result[i].item = mp.list[i]

\* The second tax type is done, with its totals, while the first is still
\* waiting for its tab.
C20_Witness ==
  /\ pl.pc = "awaitAll"
  /\ Len(sub) = 2
  /\ sub[2].pc = "done" /\ sub[1].pc = "await"
  /\ DOMAIN pl.totals = {taxTypes[2]}

----------------------------------------------------------------------------
(* Paged fetches: getReceiptData of user.js over getPagedData, and          *)
(* getAllPaymentReceiptNumbers of js/client_actions/payment_history.js      *)

MaxPages == 3

\* The number of pages is not known yet.
NoPages == -1

PageErrors == {"E1"}

\* The records that the site shows on a page of a search with numPages
\* pages: a payment and a payment registration.
pageRecords(page, numPages) ==
  IF page <= numPages
  THEN <<[page |-> page, status |-> "Paid"], [page |-> page, status |-> "PRN Generated"]>>
  ELSE <<>>

\* The numbers of a set in ascending order.
RECURSIVE Ascending(_)
Ascending(S) ==
  IF S = {} THEN <<>>
  ELSE LET least == CHOOSE x \in S : \A y \in S : x <= y
       IN <<least>> \o Ascending(S \ {least})

RECURSIVE Concat(_)
Concat(seqs) == IF seqs = <<>> THEN <<>> ELSE Head(seqs) \o Concat(Tail(seqs))

\* The calls: a first fetch (no pages given), a fetch of the pages that
\* failed before, and a fetch of the payment history.
PageCalls ==
  UNION {{[fn |-> "getReceiptData", parentTaskId |-> 0, numPages |-> n,
           pages |-> Ascending(P)] : P \in SUBSET (1..n)} : n \in 0..MaxPages}
  \cup {[fn |-> "getAllPaymentReceiptNumbers", parentTaskId |-> 0, numPages |-> n,
         pages |-> <<>>] : n \in 0..MaxPages}

legacy == call.fn = "getAllPaymentReceiptNumbers"

\* The task of the fetch.
pagesData(parent) ==
  IF legacy
  THEN [title |-> "Get payment receipt numbers", parent |-> parent, sequential |-> FALSE,
        unknownMaxProgress |-> FALSE, progressMax |-> R(1)]
  ELSE [title |-> "Get payment receipt numbers", parent |-> parent]

\* The task of a page: getPageSubTask in getReceiptData, childTask in
\* getPaymentReceiptNumbersTask.
pageData(page, parent) ==
  IF legacy
  THEN [title |-> "Get payment receipt numbers from page " \o ToString(page),
        parent |-> parent, progress |-> R(0), progressMax |-> R(1)]
  ELSE [title |-> "Get payment receipt numbers from page " \o ToString(page),
        parent |-> parent]

\* The fetch of every page of a list is started, in the order of the list.
RECURSIVE startPages(_, _, _)
startPages(w, task, pages) ==
  IF pages = <<>> THEN w
  ELSE createTask(startPages(w, task, SubSeq(pages, 1, Len(pages) - 1)),
                  pageData(pages[Len(pages)], task))

\* Mutant of legacyRestPages: the loop starts at the first page.
legacyRestPages_all(numPages) == [i \in 1..numPages |-> i]

\* for (let page = 1; page < result.numPages; page++), pages counted from 0
legacyRestPages(numPages) == [i \in 1..(numPages - 1) |-> i + 1]

\* getPagedData: the pages 2..numPages
restPages(numPages) == [i \in 1..(numPages - 1) |-> i + 1]

\* The fetch of a page returned: the end of its task.
pageReturned(w, id) ==
  IF legacy THEN Task_set(Task_set(w, id, "state", SUCCESS), id, "complete", TRUE)
  ELSE taskFunction(w, id, taskFunctionDefaults, null).w

\* The fetch of a page threw.
pageThrew(w, id, error) ==
  IF legacy THEN Task_set(Task_setError(w, id, error), id, "complete", TRUE)
  ELSE taskFunction(w, id, taskFunctionDefaults, error).w

\* The response of getPagedData for a page.
pageResponse(page, f, numPages) ==
  IF f.pc = "ok" THEN [page |-> page, kind |-> "value", value |-> pageRecords(page, numPages)]
  ELSE [page |-> page, kind |-> "error", value |-> <<>>]

\* getReceiptData: the loop over the responses.
receiptData_data(responses) ==
  Concat([i \in 1..Len(responses) |->
            IF responses[i].kind # "error" THEN responses[i].value ELSE <<>>])

receiptData_failedPages(responses) ==
  LET failed == SelectSeq(responses, LAMBDA r : r.kind = "error")
  IN [i \in 1..Len(failed) |-> failed[i].page]

\* getAllPaymentReceiptNumbers: the handler of Promise.all over the results
\* of the pages after the first.
legacyRecords(results) ==
  SelectSeq(Concat([i \in 1..Len(results) |-> results[i].value]),
            LAMBDA record : record.status # "PRN Generated")

InitPages ==
  /\ call \in PageCalls
  /\ tasks = createTasks(<<>>, 0, [parent |-> NoParent])
  /\ lists = createLists([n \in ListNames |-> <<>>], 0, [parent |-> NoParent], "all")
  /\ lastTaskId = incrLastTaskId(0)
  /\ created = <<0>>
  /\ last = [op |-> "create", id |-> 0, list |-> "all", threw |-> FALSE]
  /\ calls = 1
  /\ rl = Idle /\ lg = Idle /\ lo = Idle /\ tf = Idle /\ pl = Idle
  /\ sub = <<>>
  /\ tabs = [opened |-> 0, open |-> {}]
  /\ marks = (0 :> 0)
  /\ settled = {}
  /\ units = <<>> /\ tc = Idle /\ mp = Idle /\ pg = Idle /\ rt = Idle /\ dr = Idle /\ tl = Idle /\ ul = Idle /\ rm = Idle

pagesUnchanged ==
  UNCHANGED <<lists, last, calls, call, rl, lg, lo, tf, pl, sub, tabs, settled,
              units, tc, mp, rt, dr, tl, ul, rm>>

\* The fetches that a list of pages adds, with the tasks created for them.
newFetches(pages, firstId) ==
  [p \in {pages[i] : i \in 1..Len(pages)} |->
     [pc |-> "await",
      task |-> firstId - 1 + CHOOSE i \in 1..Len(pages) : pages[i] = p]]

\* The call up to its first await: the task of the fetch is created and the
\* first page, or every page that was asked for, is requested.
PagesCall ==
  /\ pg.pc = "idle"
  /\ LET w0 == createTask(World, pagesData(call.parentTaskId))
         first == IF call.pages = <<>> THEN <<1>> ELSE call.pages
     IN /\ SetWorld(startPages(w0, lastTaskId, first))
        /\ pg' = [pc |-> IF call.pages = <<>> THEN "first" ELSE "rest",
                  task |-> lastTaskId, numPages |-> NoPages, requested |-> first,
                  fetch |-> newFetches(first, w0.lastTaskId), order |-> <<>>,
                  data |-> <<>>, failedPages |-> <<>>, error |-> null]
  /\ pagesUnchanged

\* The first page returns the number of pages: the other pages are requested.
PageFirstReturn ==
  /\ pg.pc = "first"
  /\ LET n == call.numPages
         w1 == pageReturned(World, pg.fetch[1].task)
         w2 == IF legacy /\ n > 1 THEN Task_set(w1, pg.task, "progressMax", R(n)) ELSE w1
         rest == IF legacy THEN legacyRestPages(n) ELSE restPages(n)
     IN /\ SetWorld(startPages(w2, pg.task, rest))
        /\ pg' = [pg EXCEPT !.pc = "rest", !.numPages = n,
                            !.requested = @ \o rest,
                            !.fetch = newFetches(rest, lastTaskId)
                                      @@ [@ EXCEPT ![1].pc = "ok"],
                            !.order = Append(@, 1)]
  /\ pagesUnchanged

\* The fetch of the first page fails: the whole fetch is rejected.
PageFirstThrow ==
  /\ pg.pc = "first"
  /\ \E e \in PageErrors :
       LET w1 == pageThrew(World, pg.fetch[1].task, e)
           w2 == IF legacy
                 THEN Task_setError(Task_set(w1, pg.task, "complete", TRUE), pg.task, e)
                 ELSE w1
       IN /\ SetWorld(w2)
          /\ pg' = [pg EXCEPT !.pc = "rejected", !.fetch[1].pc = "failed",
                              !.order = Append(@, 1), !.error = e]
  /\ pagesUnchanged

PageReturn(p) ==
  /\ pg.pc = "rest"
  /\ p \in DOMAIN pg.fetch /\ pg.fetch[p].pc = "await"
  /\ SetWorld(pageReturned(World, pg.fetch[p].task))
  /\ pg' = [pg EXCEPT !.fetch[p].pc = "ok", !.order = Append(@, p)]
  /\ pagesUnchanged

PageThrow(p) ==
  /\ pg.pc = "rest"
  /\ p \in DOMAIN pg.fetch /\ pg.fetch[p].pc = "await"
  /\ \E e \in PageErrors : SetWorld(pageThrew(World, pg.fetch[p].task, e))
  /\ pg' = [pg EXCEPT !.fetch[p].pc = "failed", !.order = Append(@, p)]
  /\ pagesUnchanged

\* Every page has settled.  getReceiptData merges the responses, which come
\* in the order of the requests.  In getAllPaymentReceiptNumbers the handler
\* of Promise.all merges the results of the pages after the first; the
\* result of a failed page is its error, whose records are undefined, and
\* the handler throws on it: the promise of the fetch is never settled.
PagesSettle ==
  /\ pg.pc = "rest"
  /\ \A p \in DOMAIN pg.fetch : pg.fetch[p].pc # "await"
  /\ LET known == IF pg.numPages = NoPages THEN call.numPages ELSE pg.numPages
         responses == [i \in 1..Len(pg.requested) |->
                         pageResponse(pg.requested[i], pg.fetch[pg.requested[i]], known)]
         results == Tail(responses)
         thrown == \E i \in 1..Len(results) : results[i].kind = "error"
     IN IF legacy
        THEN IF thrown
             THEN /\ pg' = [pg EXCEPT !.pc = "hung"]
                  /\ UNCHANGED <<tasks, marks, lastTaskId, created>>
             ELSE /\ pg' = [pg EXCEPT !.pc = "resolved", !.data = legacyRecords(results)]
                  /\ tasks' = setStateBasedOnChildren(
                                setField(tasks, pg.task, "complete", TRUE), pg.task)
                  /\ UNCHANGED <<marks, lastTaskId, created>>
        ELSE /\ pg' = [pg EXCEPT !.pc = "resolved",
                                 !.data = receiptData_data(responses),
                                 !.failedPages = receiptData_failedPages(responses)]
             /\ tasks' = setStateBasedOnChildren(tasks, pg.task)
             /\ UNCHANGED <<marks, lastTaskId, created>>
  /\ pagesUnchanged

NextPages ==
  \/ PagesCall
  \/ PageFirstReturn
  \/ PageFirstThrow
  \/ \E p \in 1..MaxPages : PageReturn(p)
  \/ \E p \in 1..MaxPages : PageThrow(p)
  \/ PagesSettle

SpecPages == InitPages /\ [][NextPages]_vars

\* The pages whose fetch ended in a given way.
PagesThat(pc) == {p \in DOMAIN pg.fetch : pg.fetch[p].pc = pc}

\* C21: when no page list is given, page 1 is requested alone first; the
\* pages 2..n are requested, each exactly once, only after page 1 resolved
\* with numPages = n (none when n is 0 or 1); when the fetch of page 1 fails
\* no further page is requested and the whole fetch fails.
C21_FirstPageAlone ==
  (pg.pc # "idle" /\ call.pages = <<>>) =>
    /\ Head(pg.requested) = 1
    /\ pg.pc = "first" => pg.requested = <<1>>
    /\ Len(pg.requested) > 1 => pg.fetch[1].pc = "ok" /\ pg.numPages = call.numPages
    /\ pg.pc \in {"rest", "resolved", "hung"} =>
         /\ pg.fetch[1].pc = "ok"
         /\ pg.requested = <<1>> \o [i \in 1..(call.numPages - 1) |-> i + 1]
    /\ pg.fetch[1].pc = "failed" => pg.requested = <<1>> /\ pg.pc = "rejected"
    /\ DOMAIN pg.fetch = {pg.requested[i] : i \in 1..Len(pg.requested)}
    /\ Cardinality(DOMAIN pg.fetch) = Len(pg.requested)

C21_Witness ==
  /\ pg.pc = "resolved" /\ call.pages = <<>> /\ legacy
  /\ call.numPages = MaxPages
  /\ pg.requested = [i \in 1..MaxPages |-> i]
  /\ pg.order[2] = MaxPages

\* The records of a page that a fetch keeps: the fetch of the payment
\* history leaves the payment registrations out.
keptRecords(page) ==
  IF legacy
  THEN SelectSeq(pageRecords(page, call.numPages), LAMBDA record : record.status # "PRN Generated")
  ELSE pageRecords(page, call.numPages)

\* C22: the merged result of a paged fetch is the concatenation, in
\* ascending page number, of the records of every successfully fetched
\* page, the first page included, whatever the order in which the fetches
\* settle, and the failed pages reported are exactly the pages whose fetch
\* failed; a fetch whose pages have all settled has such a result.
C22_MergedInPageOrder ==
  /\ pg.pc = "resolved" =>
       LET fetched == Ascending(PagesThat("ok"))
       IN /\ pg.data = Concat([i \in 1..Len(fetched) |-> keptRecords(fetched[i])])
          /\ pg.failedPages = Ascending(PagesThat("failed"))
  /\ pg.pc # "hung"

----------------------------------------------------------------------------
(* The get payment receipts action, its failures and the retry of a run    *)
(* from the dashboard                                                       *)

MaxRuns == 2
MaxRetryPages == 2

NoRun == 0

\* getInitialFailuresObj
initialFailures == [receipts |-> <<>>, receiptDataPages |-> <<>>]

\* The input of a run that names no receipts and no pages.
defaultInput == [receipts |-> <<>>, receiptDataPages |-> <<>>]

checkIfAnythingFailed(failures) ==
  Len(failures.receipts) > 0 \/ Len(failures.receiptDataPages) > 0

\* Mutant of getRetryInput: the pages that failed are left out.
getRetryInput_noPages(failures) ==
  [receipts |-> failures.receipts, receiptDataPages |-> <<>>]

\* getRetryInput: the receipts and the pages that failed; a property that is
\* left out reads as the empty list in the next run.
getRetryInput(failures) ==
  [receipts |-> IF Len(failures.receipts) > 0 THEN failures.receipts ELSE <<>>,
   receiptDataPages |-> IF Len(failures.receiptDataPages) > 0
                        THEN failures.receiptDataPages ELSE <<>>]

\* if (pages.length > 0 || receipts.length === 0)
fetchesPages(input) == Len(input.receiptDataPages) > 0 \/ Len(input.receipts) = 0

\* The state that a batch leaves on its task: from the states of the tasks
\* of its items.
batchEnd(w, task, total, failed) ==
  Task_markAsComplete(
    Task_set(w, task, "state",
             IF total > 0 /\ failed = total THEN ERROR
             ELSE IF failed > 0 THEN WARNING ELSE SUCCESS), task)

Range(seq) == {seq[i] : i \in 1..Len(seq)}

newRun(run, input) ==
  [pc |-> "start", run |-> run, input |-> input, task |-> NoParent, batch |-> NoParent,
   failures |-> initialFailures, receipts |-> input.receipts,
   asked |-> <<>>, discovery |-> FALSE, found |-> <<>>, list |-> <<>>,
   failedPages |-> {}, failedReceipts |-> {}, threw |-> FALSE]

InitRetry ==
  /\ call \in {[fn |-> "getPaymentReceipts", parentTaskId |-> 0, promptRetryActions |-> b,
                numPages |-> n] : b \in BOOLEAN, n \in 0..MaxRetryPages}
  /\ tasks = createTasks(<<>>, 0, [parent |-> NoParent])
  /\ lists = createLists([n \in ListNames |-> <<>>], 0, [parent |-> NoParent], "all")
  /\ lastTaskId = incrLastTaskId(0)
  /\ created = <<0>>
  /\ last = [op |-> "create", id |-> 0, list |-> "all", threw |-> FALSE]
  /\ calls = 1
  /\ rl = Idle /\ lg = Idle /\ lo = Idle /\ tf = Idle /\ pl = Idle
  /\ sub = <<>>
  /\ tabs = [opened |-> 0, open |-> {}]
  /\ marks = (0 :> 0)
  /\ settled = {}
  /\ units = <<>> /\ tc = Idle /\ mp = Idle /\ pg = Idle
  /\ rt = [now |-> newRun(1, defaultInput), running |-> TRUE, dialog |-> FALSE,
           failuresRunId |-> NoRun, runsWithFailures |-> {}, retryInputs |-> <<>>,
           dispatches |-> <<>>]
  /\ dr = Idle /\ tl = Idle /\ ul = Idle /\ rm = Idle

retryUnchanged ==
  UNCHANGED <<lists, last, calls, call, rl, lg, lo, tf, pl, sub, tabs, settled,
              units, tc, mp, pg, dr, tl, ul, rm>>

\* runInternal up to its first await: the task of the action, the input,
\* and the call of getReceiptData or of startDownloadingReceipts.
RunInternal ==
  /\ rt.now.pc = "start"
  /\ LET w0 == createTask(World, [title |-> "Get payment receipts",
                                  parent |-> call.parentTaskId,
                                  unknownMaxProgress |-> FALSE, progressMax |-> R(2)])
         actionTask == lastTaskId
     IN IF fetchesPages(rt.now.input)
        THEN /\ SetWorld(createTask(
                  Task_set(w0, actionTask, "status", "Getting payment receipt numbers"),
                  pagesData(actionTask)))
             /\ rt' = [rt EXCEPT !.now.pc = "fetch", !.now.task = actionTask,
                                 !.now.batch = w0.lastTaskId,
                                 !.now.asked = rt.now.input.receiptDataPages,
                                 !.now.discovery = (rt.now.input.receiptDataPages = <<>>)]
        ELSE /\ SetWorld(Task_set(w0, actionTask, "status", "Downloading payment receipts"))
             /\ rt' = [rt EXCEPT !.now.pc = "lite", !.now.task = actionTask]
  /\ retryUnchanged

\* getReceiptData returns the data of the pages that were fetched and the
\* pages that failed; the receipts found are added to the receipts to
\* download.
RunFetched ==
  /\ rt.now.pc = "fetch"
  /\ LET n == call.numPages
         pages == IF rt.now.discovery THEN [i \in 1..(IF n = 0 THEN 1 ELSE n) |-> i]
                  ELSE rt.now.asked
     IN \E F \in SUBSET (Range(pages) \ (IF rt.now.discovery THEN {1} ELSE {})) :
          LET responses == [i \in 1..Len(pages) |->
                              pageResponse(pages[i],
                                           [pc |-> IF pages[i] \in F THEN "failed" ELSE "ok"], n)]
              data == receiptData_data(responses)
              failedPages == receiptData_failedPages(responses)
              receipts == rt.now.receipts \o data
              w1 == batchEnd(World, rt.now.batch, Len(pages), Cardinality(F))
          IN /\ rt' = [rt EXCEPT !.now.pc = IF Len(receipts) > 0 THEN "lite" ELSE "return",
                                 !.now.receipts = receipts,
                                 !.now.found = data,
                                 !.now.failedPages = F,
                                 !.now.failures.receiptDataPages = failedPages]
             /\ SetWorld(IF Len(receipts) > 0
                         THEN Task_set(w1, rt.now.task, "status", "Downloading payment receipts")
                         ELSE w1)
  /\ retryUnchanged

\* The fetch of the first page fails when the pages are to be discovered:
\* getReceiptData throws and so does the function of the action.
RunFetchThrows ==
  /\ rt.now.pc = "fetch" /\ rt.now.discovery
  /\ \E e \in PageErrors :
       SetWorld(taskFunction(World, rt.now.batch, taskFunctionDefaults, e).w)
  /\ rt' = [rt EXCEPT !.now.pc = "return", !.now.threw = TRUE, !.now.failedPages = {1}]
  /\ retryUnchanged

\* startDownloadingReceipts has returned: the task of the downloads is
\* created and downloadPages is called with the receipts.
RunStartDownload ==
  /\ rt.now.pc = "lite"
  /\ SetWorld(createTask(World, [title |-> "Download payment receipts",
                                 parent |-> rt.now.task]))
  /\ rt' = [rt EXCEPT !.now.pc = "download", !.now.batch = lastTaskId,
                      !.now.list = rt.now.receipts]
  /\ retryUnchanged

\* downloadPages and finishDownloadingReceipts have returned.
RunDownloaded ==
  /\ rt.now.pc = "download"
  /\ \E D \in SUBSET Range(rt.now.list) :
       LET downloadResponses ==
             [i \in 1..Len(rt.now.list) |->
                [item |-> rt.now.list[i],
                 kind |-> IF rt.now.list[i] \in D THEN "error" ELSE "value"]]
       IN /\ rt' = [rt EXCEPT !.now.pc = "return", !.now.failedReceipts = D,
                              !.now.failures.receipts =
                                 getFailedResponseItems(downloadResponses)]
          /\ SetWorld(batchEnd(World, rt.now.batch, Len(rt.now.list), Cardinality(D)))
  /\ retryUnchanged

\* The end of the run: the task of the action is ended, the retry input of
\* the run is kept and no action is running any more; the dashboard sees
\* that and, when the run failed, asks whether to retry if it is set to.
RunEnd ==
  /\ rt.now.pc = "return"
  /\ SetWorld(taskFunction(World, rt.now.task,
                           [setState |-> TRUE, setStateBasedOnChildren |-> TRUE],
                           IF rt.now.threw THEN "E1" ELSE null).w)
  /\ LET failed == ~rt.now.threw /\ checkIfAnythingFailed(rt.now.failures)
     IN rt' = [rt EXCEPT !.now.pc = "stopped", !.running = FALSE,
                         !.retryInputs = Append(@, getRetryInput(rt.now.failures)),
                         !.runsWithFailures = IF failed THEN @ \cup {rt.now.run} ELSE @,
                         !.dialog = failed /\ call.promptRetryActions,
                         !.failuresRunId = IF failed THEN rt.now.run ELSE @]
  /\ retryUnchanged

\* clientActions/retryFailures: a run with the retry input of a run.
retryFailures(runId, cause) ==
  /\ rt' = [rt EXCEPT !.now = newRun(rt.now.run + 1, rt.retryInputs[runId]),
                      !.running = TRUE, !.dialog = FALSE,
                      !.dispatches = Append(@, [cause |-> cause, runId |-> runId])]
  /\ UNCHANGED <<tasks, marks, lastTaskId, created>>
  /\ retryUnchanged

\* onConfirm of the dialog
DialogConfirm ==
  /\ rt.dialog /\ ~rt.running /\ rt.now.run < MaxRuns
  /\ retryFailures(rt.now.run, "dialog")

DialogCancel ==
  /\ rt.dialog
  /\ rt' = [rt EXCEPT !.dialog = FALSE]
  /\ UNCHANGED <<tasks, marks, lastTaskId, created>>
  /\ retryUnchanged

\* @click of the button 'Retry failed clients'
RetryButton ==
  /\ rt.runsWithFailures # {} /\ ~rt.running /\ rt.now.run < MaxRuns
  /\ rt.failuresRunId # NoRun
  /\ retryFailures(rt.failuresRunId, "button")

NextRetry ==
  \/ RunInternal
  \/ RunFetched
  \/ RunFetchThrows
  \/ RunStartDownload
  \/ RunDownloaded
  \/ RunEnd
  \/ DialogConfirm
  \/ DialogCancel
  \/ RetryButton

SpecRetry == InitRetry /\ [][NextRetry]_vars

----------------------------------------------------------------------------
(* Properties of robustLogin *)

\* The tasks of the calls of login and of logout so far.
LoginTasks ==
  {s.task : s \in {t \in settled : t.fn = "login"}}
  \cup (IF lg.pc # "idle" THEN {lg.task} ELSE {})

LogoutTasks ==
  {s.task : s \in {t \in settled : t.fn = "logout"}}
  \cup (IF lo.pc # "idle" THEN {lo.task} ELSE {})

SettledOf(id) == CHOOSE s \in settled : s.task = id

HasSettled(id) == \E s \in settled : s.task = id

InRobustLogin == call.fn = "robustLogin" /\ rl.pc # "idle"

C25_SuccessEnds ==
  InRobustLogin =>
    LET won == {id \in LoginTasks : HasSettled(id) /\ SettledOf(id).outcome = "resolved"}
        kids == tasks[rl.task].children
    IN /\ Cardinality(won) <= 1
       /\ won # {} =>
            /\ kids[Len(kids)] \in won
            /\ lo.pc = "idle"
            /\ rl.pc \in {"awaitLogin", "resolved"}
            /\ rl.pc = "awaitLogin" => lg.pc = "resolved"
       /\ rl.pc = "resolved" =>
            /\ won # {}
            /\ lg.pc = "idle"
            /\ rl.loggedInTabId = tabs.opened /\ rl.loggedInTabId # NoTab
            /\ call.keepTabOpen => rl.loggedInTabId \in tabs.open
            /\ tasks[rl.task].state = SUCCESS
            /\ complete(tasks, rl.task)
            /\ \E s \in settled : s.fn = "robustLogin" /\ s.outcome = "resolved"

C25_Witness ==
  /\ InRobustLogin /\ rl.pc = "resolved" /\ call.keepTabOpen
  /\ Cardinality(LoginTasks) = 2 /\ Cardinality(LogoutTasks) = 1
  /\ rl.loggedInTabId \in tabs.open

\* C26: a login that fails with an error other than WrongClient ends
\* robustLogin at once, without a logout or another login, however many
\* attempts remain; logout is called only directly after a login that failed
\* with WrongClient while attempts remain.
C26_OnlyWrongClientRetries ==
  InRobustLogin =>
    LET kids == tasks[rl.task].children
        m == call.maxAttempts
    IN /\ \A i \in 1..Len(kids) :
            ( /\ kids[i] \in LoginTasks /\ HasSettled(kids[i])
              /\ SettledOf(kids[i]).thrown \notin {null, "WrongClient"} )
            => /\ i = Len(kids)
               /\ rl.pc \in {"awaitLogin", "rejected"}
               /\ rl.pc = "rejected" => rl.error = SettledOf(kids[i]).thrown
       /\ \A i \in 1..Len(kids) :
            kids[i] \in LogoutTasks
            => /\ i > 1 /\ kids[i - 1] \in LoginTasks
               /\ SettledOf(kids[i - 1]).thrown = "WrongClient"
               /\ Cardinality({j \in 1..(i - 1) : kids[j] \in LoginTasks}) < m

C26_Witness ==
  /\ InRobustLogin /\ rl.pc = "rejected" /\ rl.error = "E1"
  /\ call.maxAttempts = MaxAttempts
  /\ Cardinality(LoginTasks) = 1 /\ LogoutTasks = {}

\* C27 as claimed: whenever robustLogin fails, the error it rejects with and
\* the error on its task is the error of a login, whatever the outcomes of
\* the logins and of the logouts.
C27_Original ==
  (InRobustLogin /\ rl.pc = "rejected") =>
    /\ tasks[rl.task].error = rl.error
    /\ \E id \in LoginTasks : SettledOf(id).thrown = rl.error

\* C27: whenever robustLogin fails, the error it rejects with is the error
\* recorded on its task; it is the error of the last login when no logout
\* failed, and the error of the logout when the logout failed.
C27_ErrorOfLastCall ==
  (InRobustLogin /\ rl.pc = "rejected") =>
    LET kids == tasks[rl.task].children
        lastChild == kids[Len(kids)]
    IN /\ tasks[rl.task].error = rl.error
       /\ tasks[rl.task].state = ERROR
       /\ SettledOf(lastChild).thrown = rl.error
       /\ (\A id \in LogoutTasks : SettledOf(id).outcome = "resolved")
            => lastChild \in LoginTasks
       /\ (\E id \in LogoutTasks : SettledOf(id).outcome = "rejected")
            => lastChild \in LogoutTasks

C27_Witness ==
  /\ InRobustLogin /\ rl.pc = "rejected"
  /\ \E id \in LogoutTasks : SettledOf(id).thrown = rl.error
  /\ \A id \in LoginTasks : SettledOf(id).thrown # rl.error

----------------------------------------------------------------------------
(* Tabs *)

\* The call has ended, and with it every call that it made.
TabUsersEnded ==
  \/ call.fn = "robustLogin" /\ rl.pc \in {"resolved", "rejected"}
  \/ call.fn = "logout" /\ lo.pc \in {"resolved", "rejected"}
  \/ call.fn = "downloadReceipt" /\ dr.pc \in {"resolved", "rejected"}
  \/ call.fn = "liabilities" /\ \A i \in 1..Len(sub) : sub[i].pc = "done"

\* The tab that a login keeps open on request.
KeptTabs ==
  IF call.fn = "robustLogin" /\ call.keepTabOpen /\ rl.pc = "resolved"
  THEN {rl.loggedInTabId} ELSE {}

\* C28: every tab opened by login, logout, downloadReceipt, createTabPost
\* or a per-tax-type promise is closed on every exit path, success or a
\* failure at any step after the tab was opened, a failure inside
\* createTabPost included; only the tab of a login that was asked to keep
\* it stays open.
C28_TabsClosed == TabUsersEnded => tabs.open \subseteq KeptTabs

----------------------------------------------------------------------------
(* Aggregation of state *)

\* The state that setStateBasedOnChildren gives a task whose children that
\* count are kids.
StateFrom(kids) ==
  IF \A c \in kids : tasks[c].state = ERROR THEN ERROR
  ELSE IF \E c \in kids : tasks[c].state \in {ERROR, WARNING} THEN WARNING
  ELSE SUCCESS

\* C29 as claimed: setStateBasedOnChildren counts only the children that
\* update their parent; a parent whose auto-updating children are all in
\* state ERROR becomes ERROR even when another child succeeded.
C29_Original ==
  (last.op = "setStateBasedOnChildren" /\ AutoChildSet(last.id) # {}) =>
    tasks[last.id].state = StateFrom(AutoChildSet(last.id))

\* C29: setStateBasedOnChildren counts every child, whether it updates its
\* parent or not: a parent whose auto-updating children are all in state
\* ERROR becomes WARNING when another child is not in state ERROR, and a
\* parent whose auto-updating children all succeeded becomes WARNING when
\* another child is in state ERROR or WARNING.
C29_CountsEveryChild ==
  (last.op = "setStateBasedOnChildren" /\ AutoChildSet(last.id) # {}) =>
    LET others == ChildSet(last.id) \ AutoChildSet(last.id)
    IN /\ tasks[last.id].state = StateFrom(AutoChildSet(last.id) \cup others)
       /\ ( /\ \A c \in AutoChildSet(last.id) : tasks[c].state = ERROR
            /\ \E c \in others : tasks[c].state # ERROR )
          => tasks[last.id].state = WARNING
       /\ ( /\ \A c \in AutoChildSet(last.id) : tasks[c].state = SUCCESS
            /\ \E c \in others : tasks[c].state \in {ERROR, WARNING} )
          => tasks[last.id].state = WARNING

C29_Witness ==
  /\ last.op = "setStateBasedOnChildren"
  /\ AutoChildSet(last.id) # {}
  /\ \A c \in AutoChildSet(last.id) : tasks[c].state = ERROR
  /\ \E c \in ChildSet(last.id) \ AutoChildSet(last.id) : tasks[c].state = SUCCESS
  /\ tasks[last.id].state = WARNING

\* What is stored for a task apart from its place in the tree.
Stored(t) ==
  [state |-> t.state, progress |-> t.progress, progressMax |-> t.progressMax,
   complete |-> t.complete, status |-> t.status, error |-> t.error]

\* C30: addStep, setError, setState and markAsComplete on a task leave the
\* stored state, progress, progressMax, complete, status and error of every
\* other task unchanged, and the stored state of a task changes only when
\* setState, setError, setStateBasedOnChildren or setErrorBasedOnChildren is
\* called on that task.
C30_Frame ==
  [][ /\ last'.op \in {"addStep", "setError", "setState", "markAsComplete"} =>
           \A id \in DOMAIN tasks \ {last'.id} :
             id \in DOMAIN tasks' /\ Stored(tasks'[id]) = Stored(tasks[id])
      /\ \A id \in DOMAIN tasks \cap DOMAIN tasks' :
           tasks'[id].state # tasks[id].state =>
             /\ last'.op \in {"setState", "setError", "setStateBasedOnChildren",
                              "setErrorBasedOnChildren"}
             /\ last'.id = id
    ]_vars

\* A task with a parent and a child is set to an error, and neither the
\* parent nor the child is in state ERROR.
C30_Witness ==
  /\ last.op = "setError"
  /\ tasks[last.id].state = ERROR
  /\ hasParent(tasks, last.id) /\ tasks[tasks[last.id].parent].state # ERROR
  /\ hasChildren(tasks, last.id)
  /\ \A c \in ChildSet(last.id) : tasks[c].state # ERROR

----------------------------------------------------------------------------
(* The tree of tasks under creation and removal *)

C38_TreeIntact ==
  /\ \A id \in DOMAIN tasks :
       /\ \A i \in 1..Len(tasks[id].children) : tasks[id].children[i] \in DOMAIN tasks
       /\ tasks[id].parent # NoParent => tasks[id].parent \in DOMAIN tasks
  /\ \A name \in ListNames :
       \A i \in 1..Len(lists[name]) : lists[name][i] \in DOMAIN tasks

\* C40: setErrorBasedOnChildren changes a task only when the task has exactly
\* one child and that child carries an error: the task then gets the error of
\* the child and the state ERROR; with no child, with several children or
\* with one child without an error, the error and the state of the task stay
\* as they were.
C40_OnlyChildError ==
  [][ last'.op = "setErrorBasedOnChildren" =>
        LET id == last'.id
            kids == tasks[id].children
        IN IF Len(kids) = 1 /\ tasks[kids[1]].error # null
           THEN /\ tasks'[id].error = tasks[kids[1]].error
                /\ tasks'[id].state = ERROR
           ELSE /\ tasks'[id].error = tasks[id].error
                /\ tasks'[id].state = tasks[id].state
    ]_vars

----------------------------------------------------------------------------
(* Completion over time *)

\* Task c is below task id in the tree.
RECURSIVE isUnder(_, _, _)
isUnder(ts, c, id) ==
  /\ c \in DOMAIN ts
  /\ ts[c].parent # NoParent
  /\ (ts[c].parent = id \/ isUnder(ts, ts[c].parent, id))

\* C33 as stated: once the derived complete of a task is true, it is true in
\* every later state, also when a further child is created under the task.
C33_Original ==
  [][ \A id \in DOMAIN tasks \cap DOMAIN tasks' :
        complete(tasks, id) => complete(tasks', id) ]_vars

\* C33: the derived complete of a task goes from true to false only in a
\* step that creates an auto-updating task below it; no other operation of
\* the store takes a task back from complete to running.
C33_CompleteUntilChild ==
  [][ \A id \in DOMAIN tasks \cap DOMAIN tasks' :
        (complete(tasks, id) /\ ~complete(tasks', id)) =>
          \E c \in DOMAIN tasks' \ DOMAIN tasks :
            tasks'[c].autoUpdateParent /\ isUnder(tasks', c, id) ]_vars

\* A task whose only auto-updating child was complete got a second
\* auto-updating child and is running again.
C33_Witness ==
  /\ last.op = "create"
  /\ hasParent(tasks, last.id)
  /\ LET p == tasks[last.id].parent
     IN /\ tasks[p].children[Len(tasks[p].children)] = last.id
        /\ Len(tasks[p].children) = 2
        /\ tasks[tasks[p].children[1]].autoUpdateParent
        /\ complete(tasks, tasks[p].children[1])
        /\ tasks[last.id].autoUpdateParent
        /\ ~complete(tasks, p)

----------------------------------------------------------------------------
(* The slots of the tab creator *)

\* C34: a granted slot is always given back: openTabsCount is the number of
\* tabs the tab creator created that are still open plus the number of tab
\* creations in flight, also after a creation failed, and it is never below 0.
C34_SlotGivenBack ==
  /\ tc.openTabsCount =
       Cardinality({r \in 1..MaxRequests : tc.req[r] = "open"})
       + Cardinality({r \in 1..MaxRequests : tc.req[r] = "granted"})
  /\ tc.openTabsCount >= 0

----------------------------------------------------------------------------
(* The parent task of the pending liabilities *)

\* C35: when the handler of Promise.all has aggregated the state of the
\* parent and marked it complete, the promise of every tax type has closed
\* its tab and marked its task complete.
C35_ParentAfterChildren ==
  pl.pc = "resolved" =>
    \A i \in 1..Len(sub) :
      /\ sub[i].pc = "done"
      /\ sub[i].tab \notin tabs.open
      /\ marks[sub[i].task] = 1

----------------------------------------------------------------------------
(* The promise of getAllPaymentReceiptNumbers *)

\* C39: the promise of getAllPaymentReceiptNumbers always settles: it is
\* rejected when the first page fails, and once every further page fetch has
\* settled it is resolved, also when some of those fetches failed; its
\* handler never leaves it pending.
C39_AlwaysSettles ==
  (legacy /\ pg.pc # "idle") =>
    /\ pg.fetch[1].pc = "failed" => pg.pc = "rejected"
    /\ pg.pc # "hung"

----------------------------------------------------------------------------
(* The lists of selected clients of the dashboard (store/modules/tasks.ts) *)

MaxClients == 3

\* The sequences of distinct ids of a set of clients.
Selections(S) ==
  {q \in UNION {[1..n -> S] : n \in 0..Cardinality(S)} :
     \A i, j \in 1..Len(q) : i # j => q[i] # q[j]}

\* this[list].splice(i): with a start and no delete count, everything from
\* index i (from 0) to the end is removed.
splice(list, i) == SubSeq(list, 1, i)

\* The loop of removeInvalidClientsFromList from index i down to 0; test is
\* the set of ids for which the test function returns true.
RECURSIVE removeLoop(_, _, _)
removeLoop(list, test, i) ==
  IF i < 0 THEN list
  ELSE LET id == list[i + 1]
           shouldRemove == id \in test
       IN removeLoop(IF shouldRemove THEN splice(list, i) ELSE list, test, i - 1)

removeInvalidClientsFromList(list, test) == removeLoop(list, test, Len(list) - 1)

\* The last call of removeInvalidClientsFromList.
removal(name, before, test) ==
  [list |-> name, before |-> before, test |-> test,
   after |-> removeInvalidClientsFromList(before, test)]

InitLists ==
  /\ tasks = <<>>
  /\ lists = [n \in ListNames |-> <<>>]
  /\ lastTaskId = 0
  /\ created = <<>>
  /\ last = [op |-> "init"]
  /\ calls = 0
  /\ call = [fn |-> "none"]
  /\ rl = Idle /\ lg = Idle /\ lo = Idle /\ tf = Idle /\ pl = Idle
  /\ sub = <<>>
  /\ tabs = [opened |-> 0, open |-> {}]
  /\ marks = <<>>
  /\ settled = {}
  /\ units = <<>> /\ tc = Idle /\ mp = Idle /\ pg = Idle /\ rt = Idle /\ dr = Idle
  /\ tl = Idle /\ ul = Idle
  /\ \E valid \in Selections(1..MaxClients) :
       \E selected \in Selections({valid[i] : i \in 1..Len(valid)}) :
         rm = [clientIds |-> 1..MaxClients, selectedValidClientIds |-> valid,
               selectedClientIds |-> selected, watch |-> FALSE,
               last |-> [list |-> "none"]]

listsUnchanged ==
  UNCHANGED <<tasks, lists, lastTaskId, created, last, calls, call, rl, lg, lo, tf,
              pl, sub, tabs, marks, settled, units, tc, mp, pg, rt, dr, tl, ul>>

\* Clients are removed from the list of clients: the watcher of clientIds
\* removes the selected clients which no longer exist.
WatchClientIds ==
  /\ \E gone \in (SUBSET rm.clientIds) \ {{}} :
       LET clientIds == rm.clientIds \ gone
           r == removal("selectedValidClientIds", rm.selectedValidClientIds,
                        (1..MaxClients) \ clientIds)
       IN rm' = [rm EXCEPT !.clientIds = clientIds,
                           !.selectedValidClientIds = r.after,
                           !.watch = @ \/ r.after # r.before,
                           !.last = r]
  /\ listsUnchanged

\* selectedValidClientIds changed: its watcher removes the selected client
\* ids that are no longer in it.
WatchSelectedValidClientIds ==
  /\ rm.watch
  /\ LET validIds == {rm.selectedValidClientIds[i] :
                        i \in 1..Len(rm.selectedValidClientIds)}
         r == removal("selectedClientIds", rm.selectedClientIds,
                      (1..MaxClients) \ validIds)
     IN rm' = [rm EXCEPT !.selectedClientIds = r.after, !.watch = FALSE, !.last = r]
  /\ listsUnchanged

NextLists ==
  \/ WatchClientIds
  \/ WatchSelectedValidClientIds

SpecLists == InitLists /\ [][NextLists]_vars

\* C37: removeInvalidClientsFromList(list, test) removes from the list
\* exactly the ids for which test returns true and keeps every other id in
\* its original relative order; an id that passes the test is not removed
\* because an earlier id in the list failed it.
C37_RemovesExactly ==
  rm.last.list # "none" =>
    rm.last.after = SelectSeq(rm.last.before, LAMBDA id : id \notin rm.last.test)

----------------------------------------------------------------------------
(* tabLoaded (content_scripts/helpers/zra.ts) *)

MaxTimeout == 2
MaxEvents == 3

\* The tab that is waited for and another tab of the browser.
LoadTabs == {1, 2}

\* resolve and reject of the promise: the first call settles it, a later
\* call has no effect.
settle(t, promise, error) ==
  IF t.promise = "pending" THEN [t EXCEPT !.promise = promise, !.error = error] ELSE t

\* Mutant of removeListeners: the listeners stay registered.
removeListeners_none(t) == t

removeListeners(t) == [t EXCEPT !.onUpdated = FALSE, !.onRemoved = FALSE]

updatedListener(t, tabId, status) ==
  IF tabId = t.desiredTabId /\ status = "complete"
  THEN settle(removeListeners(t), "resolved", null)
  ELSE t

removedListener(t, tabId) ==
  IF tabId = t.desiredTabId
  THEN settle(removeListeners(t), "rejected", "Closed")
  ELSE t

\* The callback of setTimeout
timedOut(t) == settle(removeListeners(t), "rejected", "TimedOut")

\* The call: both listeners are added and the timer is started.  History:
\* events are the events of the browser and of the timer since the call,
\* calls the listeners that ran.
tabLoaded(desiredTabId, timeout) ==
  [ pc |-> "called", desiredTabId |-> desiredTabId, promise |-> "pending",
    error |-> null, onUpdated |-> TRUE, onRemoved |-> TRUE,
    timeout |-> timeout, timer |-> timeout, fired |-> FALSE, open |-> LoadTabs, events |-> <<>>,
    calls |-> <<>> ]

loadedUnchanged ==
  UNCHANGED <<tasks, lists, lastTaskId, created, last, calls, call, rl, lg, lo, tf,
              pl, sub, tabs, marks, settled, units, tc, mp, pg, rt, dr, ul, rm>>

loadEvent(kind, tabId, status) == [kind |-> kind, tabId |-> tabId, status |-> status]

TabLoadedCall ==
  /\ tl.pc = "idle"
  /\ \E timeout \in 0..MaxTimeout : tl' = tabLoaded(1, timeout)
  /\ loadedUnchanged

\* browser.tabs.onUpdated fires for an open tab.
BrowserUpdated(tabId, status) ==
  /\ tl.pc = "called"
  /\ tabId \in tl.open
  /\ Len(tl.events) < MaxEvents
  /\ LET e == loadEvent("updated", tabId, status)
         t == [tl EXCEPT !.events = Append(@, e)]
     IN tl' = IF t.onUpdated
              THEN updatedListener([t EXCEPT !.calls = Append(@, e)], tabId, status)
              ELSE t
  /\ loadedUnchanged

\* browser.tabs.onRemoved fires: a tab was closed.
BrowserRemoved(tabId) ==
  /\ tl.pc = "called"
  /\ tabId \in tl.open
  /\ Len(tl.events) < MaxEvents
  /\ LET e == loadEvent("removed", tabId, "")
         t == [tl EXCEPT !.events = Append(@, e), !.open = @ \ {tabId}]
     IN tl' = IF t.onRemoved
              THEN removedListener([t EXCEPT !.calls = Append(@, e)], tabId)
              ELSE t
  /\ loadedUnchanged

\* A millisecond of the timeout passes.
LoadTick ==
  /\ tl.pc = "called"
  /\ tl.timer > 0
  /\ tl' = [tl EXCEPT !.timer = @ - 1]
  /\ loadedUnchanged

\* The timer fires; it is never cleared.
LoadTimeout ==
  /\ tl.pc = "called"
  /\ tl.timer = 0 /\ ~tl.fired
  /\ LET e == loadEvent("timeout", tl.desiredTabId, "")
     IN tl' = timedOut([tl EXCEPT !.fired = TRUE, !.events = Append(@, e),
                                  !.calls = Append(@, e)])
  /\ loadedUnchanged

NextLoaded ==
  \/ TabLoadedCall
  \/ \E tabId \in LoadTabs, status \in {"loading", "complete"} :
       BrowserUpdated(tabId, status)
  \/ \E tabId \in LoadTabs : BrowserRemoved(tabId)
  \/ LoadTick
  \/ LoadTimeout

\* Time passes and a timer that is due fires.
SpecLoaded ==
  /\ InitStore
  /\ [][NextLoaded]_vars
  /\ WF_vars(LoadTick)
  /\ WF_vars(LoadTimeout)

\* The events that settle the promise: the tab is complete, the tab was
\* removed, the timeout elapsed.
Decides(e) ==
  \/ e.kind = "timeout"
  \/ e.tabId = tl.desiredTabId /\ (e.kind = "removed" \/ e.status = "complete")

\* The outcome that an event asks for.
OutcomeOf(e) ==
  IF e.kind = "updated" THEN [promise |-> "resolved", error |-> null]
  ELSE IF e.kind = "removed" THEN [promise |-> "rejected", error |-> "Closed"]
  ELSE [promise |-> "rejected", error |-> "TimedOut"]

FirstDeciding == SelectSeq(tl.events, Decides)

\* C32: the promise of tabLoaded is pending until the first of the three
\* events and has the outcome of that event from then on (resolved for status
\* complete of the tab, TabError Closed for its removal, TabError TimedOut
\* for the timeout), whatever happens later; once it has settled both
\* listeners are removed and no listener runs again; and every call settles.
C32_SettlesOnce ==
  /\ [](tl.pc = "called" =>
          /\ FirstDeciding = <<>> =>
               tl.promise = "pending" /\ tl.onUpdated /\ tl.onRemoved
          /\ FirstDeciding # <<>> =>
               /\ [promise |-> tl.promise, error |-> tl.error] = OutcomeOf(Head(FirstDeciding))
               /\ ~tl.onUpdated /\ ~tl.onRemoved
               /\ \A i \in 1..Len(tl.calls) :
                    tl.calls[i].kind # "timeout" =>
                      \A j \in 1..(i - 1) : ~Decides(tl.calls[j]))
  /\ (tl.pc = "called") ~> (tl.pc = "called" /\ tl.promise # "pending")

\* The tab became complete first: the promise is resolved, and the removal
\* of the tab and the timeout after it changed nothing.
C32_Witness ==
  /\ tl.pc = "called"
  /\ tl.promise = "resolved"
  /\ tl.fired
  /\ tl.desiredTabId \notin tl.open

----------------------------------------------------------------------------
(* login, logout and robustLogin of client_actions/user.ts *)

\* The awaits of login: the login page, the captcha, the login request (a
\* tab with keepTabOpen, a document without), and with keepTabOpen
\* tabLoaded and the check_login content script.
tsLoginAwaits(keepTabOpen) == IF keepTabOpen THEN 5 ELSE 3

tsLoginStatus ==
  << "Initiating login", "Waiting for login to complete", "", "", "" >>

tsLoginData(parent) ==
  [title |-> "Login", parent |-> parent, progressMax |-> R(4),
   status |-> "Getting session hash"]

tsLogoutData(parent) == [title |-> "Logout", parent |-> parent]

TsErrors == {"WrongClient", "E1"}

\* The calls of robustLogin.
TsCalls ==
  {[fn |-> "robustLogin", parentTaskId |-> 0, maxAttempts |-> m, keepTabOpen |-> k,
    closeOnErrors |-> c] : m \in 1..MaxAttempts, k \in BOOLEAN, c \in BOOLEAN}

InitTs ==
  /\ call \in TsCalls
  /\ tasks = createTasks(<<>>, 0, [parent |-> NoParent])
  /\ lists = createLists([n \in ListNames |-> <<>>], 0, [parent |-> NoParent], "all")
  /\ lastTaskId = incrLastTaskId(0)
  /\ created = <<0>>
  /\ last = [op |-> "create", id |-> 0]
  /\ calls = 1
  /\ rl = Idle /\ lg = Idle /\ lo = Idle /\ tf = Idle /\ pl = Idle
  /\ sub = <<>>
  /\ tabs = [opened |-> 0, open |-> {}]
  /\ marks = (0 :> 0)
  /\ settled = {}
  /\ units = <<>> /\ tc = Idle /\ mp = Idle /\ pg = Idle /\ rt = Idle /\ dr = Idle
  /\ tl = Idle /\ rm = Idle
  /\ ul = Idle

tsUnchanged ==
  UNCHANGED <<lists, last, calls, call, rl, lg, lo, tf, pl, sub, settled,
              units, tc, mp, pg, rt, dr, tl, rm>>

\* closeTab(tabId) is called: browser.tabs.remove is asked to close the tab.
\* History: closes counts the calls per tab.
tsCloseTab(u, tb, tabId) ==
  [u |-> [u EXCEPT !.closes = (tabId :> (IF tabId \in DOMAIN @ THEN @[tabId] ELSE 0) + 1) @@ @],
   tabs |-> closeTab(tb, tabId)]

\* login up to its first await, for the task it created.
tsLoginStart(u, id) ==
  [u EXCEPT !.pc = "login", !.login = [task |-> id, at |-> 1, tabId |-> NoTab]]

\* robustLogin up to the first await of the first login.
TsRobustLoginCall ==
  /\ ul.pc = "idle"
  /\ LET w1 == createTask(World, robustLoginData(call.parentTaskId, call.maxAttempts))
         w2 == Task_set(w1, lastTaskId, "status", "Logging in")
         w3 == createTask(w2, tsLoginData(lastTaskId))
     IN /\ SetWorld(w3)
        /\ ul' = tsLoginStart([pc |-> "login", task |-> lastTaskId, attempts |-> 0,
                               loggedInTabId |-> NoTab, closes |-> <<>>,
                               error |-> null, response |-> null, logout |-> NoParent,
                               login |-> null],
                              w2.lastTaskId)
  /\ tabs' = tabs
  /\ tsUnchanged

\* An await of login resolves and login goes on to its next await.
TsLoginResolve ==
  /\ ul.pc = "login"
  /\ ul.login.at < tsLoginAwaits(call.keepTabOpen)
  /\ LET at == ul.login.at
         tb == IF at = 3 THEN createTab(tabs) ELSE tabs
         status == IF at = 4 THEN "Checking if login was successful" ELSE tsLoginStatus[at]
     IN /\ tabs' = tb
        /\ ul' = [ul EXCEPT !.login.at = at + 1,
                            !.login.tabId = IF at = 3 THEN tb.opened ELSE @]
        /\ SetWorld(IF status = "" THEN World
                    ELSE Task_addStep(World, ul.login.task, status))
  /\ tsUnchanged

\* What robustLogin does with an error of login in its catch block: with
\* WrongClient and attempts left the tab is closed and logout is called,
\* otherwise the error leaves the loop and taskFunction rejects.
robustLoginCatch(u, w, tb, error) ==
  IF retryLogin(error, u.attempts, call.maxAttempts)
  THEN LET c == IF u.loggedInTabId # NoTab THEN tsCloseTab(u, tb, u.loggedInTabId)
                ELSE [u |-> u, tabs |-> tb]
           w1 == Task_set(w, u.task, "status", "Logging out")
           w2 == createTask(w1, tsLogoutData(u.task))
       IN [u |-> [c.u EXCEPT !.pc = "logout", !.logout = w1.lastTaskId],
           w |-> w2, tabs |-> c.tabs]
  ELSE [u |-> [u EXCEPT !.pc = "rejected", !.error = error],
        w |-> taskFunction(w, u.task, taskFunctionDefaults, error).w, tabs |-> tb]

\* The check of the login ends, without error or with one: login returns
\* the tab and the error of the check, and robustLogin goes on with them.
TsLoginChecked ==
  /\ ul.pc = "login"
  /\ ul.login.at = tsLoginAwaits(call.keepTabOpen)
  /\ \E checkLoginError \in {null} \cup TsErrors :
       LET id == ul.login.task
           tabId == ul.login.tabId
           w0 == IF call.keepTabOpen THEN World
                 ELSE Task_addStep(World, id, "Checking if login was successful")
           w1 == IF checkLoginError = null THEN Task_set(w0, id, "state", SUCCESS)
                 ELSE Task_setError(w0, id, checkLoginError)
           c == IF checkLoginError # null /\ call.keepTabOpen /\ call.closeOnErrors
                   /\ tabId # NoTab
                THEN tsCloseTab(ul, tabs, tabId)
                ELSE [u |-> ul, tabs |-> tabs]
           w2 == taskFunction(w1, id, [setState |-> FALSE, setStateBasedOnChildren |-> FALSE],
                              null).w
       IN /\ SetWorld(w2)
          /\ tabs' = c.tabs
          /\ ul' = [c.u EXCEPT !.pc = "loginReturned",
                               !.response = [tabId |-> tabId,
                                             checkLoginError |-> checkLoginError]]
  /\ tsUnchanged

\* An await of login rejects (a failure of the check_login script is the
\* error of the check): inside the try block the tab, if there is one, is
\* closed; login rejects.
TsLoginThrow ==
  /\ ul.pc = "login"
  /\ ~(call.keepTabOpen /\ ul.login.at = tsLoginAwaits(TRUE))
  /\ LET c == IF call.keepTabOpen /\ ul.login.tabId # NoTab
              THEN tsCloseTab(ul, tabs, ul.login.tabId)
              ELSE [u |-> ul, tabs |-> tabs]
         w == taskFunction(World, ul.login.task,
                           [setState |-> FALSE, setStateBasedOnChildren |-> FALSE], "E1").w
     IN /\ SetWorld(w)
        /\ tabs' = c.tabs
        /\ ul' = [c.u EXCEPT !.pc = "loginThrew", !.error = "E1"]
  /\ tsUnchanged

\* login returned: robustLogin takes the tab and either returns it or throws
\* the error of the check into its catch block.
TsRobustLoginResponse ==
  /\ ul.pc = "loginReturned"
  /\ LET u == [ul EXCEPT !.loggedInTabId = ul.response.tabId]
         error == ul.response.checkLoginError
     IN IF error = null
        THEN /\ ul' = [u EXCEPT !.pc = "resolved", !.attempts = @ + 1]
             /\ SetWorld(taskFunction(World, ul.task, taskFunctionDefaults, null).w)
             /\ tabs' = tabs
        ELSE LET r == robustLoginCatch(u, World, tabs, error)
             IN ul' = r.u /\ SetWorld(r.w) /\ tabs' = r.tabs
  /\ tsUnchanged

\* login rejected: the catch block of robustLogin runs.
TsRobustLoginCaught ==
  /\ ul.pc = "loginThrew"
  /\ LET r == robustLoginCatch(ul, World, tabs, ul.error)
     IN ul' = r.u /\ SetWorld(r.w) /\ tabs' = r.tabs
  /\ tsUnchanged

\* logout resolved: the next attempt to log in starts.
TsLogoutReturn ==
  /\ ul.pc = "logout"
  /\ LET w1 == taskFunction(World, ul.logout, taskFunctionDefaults, null).w
         w2 == Task_set(w1, ul.task, "status", "Logging in again")
         w3 == createTask(w2, tsLoginData(ul.task))
     IN /\ SetWorld(w3)
        /\ ul' = tsLoginStart([ul EXCEPT !.attempts = @ + 1], w2.lastTaskId)
  /\ tabs' = tabs
  /\ tsUnchanged

\* logout rejected inside the catch block: its error leaves the loop.
TsLogoutThrow ==
  /\ ul.pc = "logout"
  /\ LET w1 == taskFunction(World, ul.logout, taskFunctionDefaults, "LogoutError").w
         w2 == taskFunction(w1, ul.task, taskFunctionDefaults, "LogoutError").w
     IN /\ SetWorld(w2)
        /\ ul' = [ul EXCEPT !.pc = "rejected", !.error = "LogoutError"]
  /\ tabs' = tabs
  /\ tsUnchanged

NextTs ==
  \/ TsRobustLoginCall
  \/ TsLoginResolve
  \/ TsLoginChecked
  \/ TsLoginThrow
  \/ TsRobustLoginResponse
  \/ TsRobustLoginCaught
  \/ TsLogoutReturn
  \/ TsLogoutThrow

SpecTs == InitTs /\ [][NextTs]_vars

\* C36: no tab is asked to be closed more than once, also not a tab that
\* login closed after a failed check and that robustLogin holds before the
\* retry; and once robustLogin has settled at most the tab of the last
\* attempt is open.
C36_ClosedOnce ==
  ul.pc # "idle" =>
    /\ \A t \in DOMAIN ul.closes : ul.closes[t] <= 1
    /\ ul.pc \in {"resolved", "rejected"} => tabs.open \subseteq {ul.login.tabId}

=============================================================================
